---- MODULE Spec2Model ----
(***************************************************************************)
(* Model of lib/BeanBag.js: the request pipeline of BeanBag.request(),     *)
(* its retry loop, the abort() method of the returned handle, the          *)
(* buffered and the streaming (line-oriented) response handling.           *)
(*                                                                         *)
(* One behaviour is one invocation of request(options, cb) on one client.  *)
(* The transport (http.request, the response stream and the user hook      *)
(* preprocessRequestOptions) is the environment: it raises the events the  *)
(* code registers handlers for, in any order node can deliver them.        *)
(***************************************************************************)
EXTENDS Integers, Sequences, FiniteSets, TLC

\* ---------------------------------------------------------------- bounds
MaxRetries == 2      \* largest numRetries given to the client or the call
MaxAborts  == 2      \* abort() calls on the handle in one behaviour
MaxLines   == 2      \* 'line' events of one streamed response body
MaxChunks  == 1      \* 'data' events of one buffered response body
MaxFeed    == 4      \* lines of a view response given as a whole
MaxRows    == 2      \* rows of an _all_docs listing
MaxQRetries == 1     \* that.numRetries of a client querying a design document
MaxUrls    == 2      \* base URLs of a client configured with a list
MaxCalls   == 2      \* calls of request() on one client

\* ------------------------------------------------------------ input sets
Undefined == -1      \* options.numRetries not given

StatusCodes  == {200, 304, 404}
ContentTypes == {"application/json", "text/plain"}
Chunks       == {"{}", "x"}
BodyKinds    == {"undefined", "object", "stream"}

\* Errors are records; statusCode = 0 stands for "no statusCode property".
Err(statusCode, code, text) == [statusCode |-> statusCode, code |-> code, text |-> text]
NoErr == Err(0, "", <<>>)
TransportErrors == {Err(0, "ETIMEDOUT", <<>>)}
HookErrors      == {Err(0, "EOTHER", <<>>)}
BodyErrors      == {Err(0, "EOTHER", <<>>)}
SocketCodes     == {"ETIMEDOUT"}

\* ------------------------------------------------- lines of a view body
LOpenMeta == <<"{", "\"", "t", "\"", ":", "2", ",", "\"", "r", "o", "w", "s", "\"", ":", "[">>
LRow      == <<"{", "\"", "a", "\"", ":", "1", "}", ",">>
LClose    == <<"]", "}">>
LSep      == <<"]", ",">>
LTrail    == <<"\"", "s", "\"", ":", "5", "}">>
LBad      == <<"C", "Q">>
LRowB     == <<"{", "\"", "b", "\"", ":", "1", "}">>
LEmpty    == <<>>
Lines     == {LOpenMeta, LRow, LClose, LTrail, LBad}

KeyRows    == <<"\"", "r", "o", "w", "s", "\"", ":">>
KeyResults == <<"\"", "r", "e", "s", "u", "l", "t", "s", "\"", ":">>
Whitespace == {" ", "\t", "\r"}

\* JSON.parse succeeds exactly on the well-formed texts; the parsed value is
\* represented by its text.
JsonTexts == { <<"{", "\"", "t", "\"", ":", "2", "}">>,
               <<"{", "\"", "a", "\"", ":", "1", "}">>,
               <<"{", "\"", "s", "\"", ":", "5", "}">>,
               <<"{", "\"", "b", "\"", ":", "1", "}">>,
               <<"{", "}">> }
JsonParseOk(text) == text \in JsonTexts
JsonBodyOk(body)  == body \in {"{}"}

CouldntParse == <<"C", "o", "u", "l", "d", "n", "'", "t", " ", "p", "a", "r", "s", "e", " ",
                  "l", "i", "n", "e", ":", " ">>

\* /^application\/json\b|\+json\b/i on the content types of the model
isContentTypeJson(contentType) == contentType \in {"application/json"}

\* --------------------------------------------------- regular expressions
From(str, i) == SubSeq(str, i, Len(str))

\* "(?:rows|results)":\s*\[(?:\]\}|)$ matched against the whole of t
IsRowsTail(t) ==
    \E key \in {KeyRows, KeyResults}, opt \in {<<>>, LClose} :
        /\ Len(t) >= Len(key) + 1 + Len(opt)
        /\ SubSeq(t, 1, Len(key)) = key
        /\ From(t, Len(t) - Len(opt) + 1) = opt
        /\ t[Len(t) - Len(opt)] = "["
        /\ \A j \in (Len(key) + 1)..(Len(t) - Len(opt) - 1) : t[j] \in Whitespace

\* str.match(/^\{(.*)"(?:rows|results)":\s*\[(?:\]\}|)$/): the set of
\* positions where the greedy group 1 can end; empty when there is no match.
FirstLineEnds(str) ==
    IF Len(str) = 0 \/ str[1] # "{" THEN {}
    ELSE { i \in 1..Len(str) : IsRowsTail(From(str, i + 1)) }

matchFirstLine(str) == FirstLineEnds(str) # {}

Max(S) == CHOOSE m \in S : \A n \in S : n <= m

\* matchFirstLine[1]
FirstLineGroup(str) == SubSeq(str, 2, Max(FirstLineEnds(str)))

\* str.match(/^(".*)\}$/)
matchLastLine(str) == Len(str) >= 2 /\ str[1] = "\"" /\ str[Len(str)] = "}"
LastLineGroup(str) == SubSeq(str, 1, Len(str) - 1)

\* s.replace(/\,\s*$/, '')
RECURSIVE StripWs(_)
StripWs(s) == IF Len(s) > 0 /\ s[Len(s)] \in Whitespace THEN StripWs(SubSeq(s, 1, Len(s) - 1)) ELSE s
StripCommaWs(s) ==
    LET w == StripWs(s)
    IN  IF Len(w) > 0 /\ w[Len(w)] = "," THEN SubSeq(w, 1, Len(w) - 1) ELSE s

\* the row line parsed with its trailing comma
StripCommaCr_Keeps(s) == s

\* str.replace(/,\r?$/, '')
StripCommaCr(s) ==
    LET n == Len(s)
    IN  IF n >= 1 /\ s[n] = "," THEN SubSeq(s, 1, n - 1)
        ELSE IF n >= 2 /\ s[n] = "\r" /\ s[n - 1] = "," THEN SubSeq(s, 1, n - 2)
        ELSE s

Braced(s) == <<"{">> \o s \o <<"}">>

\* ------------------------------------------------------------------ state
VARIABLES
    that,            \* the client: numRetries, preprocessRequestOptions set or not
    options,         \* the options of the call: streamRows, numRetries, body
    cb,              \* TRUE when request() was given a callback
    pc,              \* "idle" (not called yet), "hook" (preprocessRequestOptions pending), "running"
    done,            \* request(): var done
    numRetriesLeft,  \* request(): var numRetriesLeft
    currentRequest,  \* request(): var currentRequest (Null or the index of a transport request)
    body,            \* request(): var body, by kind
    reqs,            \* the transport requests made by httpModule.request, in order
    log,             \* every event emitted and every callback call, in order
    aborts,          \* the number of abort() calls made on the handle
    cancelled,       \* TRUE once abort() was called on an invocation that was not done
    late             \* TRUE once the transport has delivered an event after done

vars == <<that, options, cb, pc, done, numRetriesLeft, currentRequest, body, reqs, log,
          aborts, cancelled, late>>

\* A streamed view response given as a whole: its lines, and how many of them
\* the response has delivered.
VARIABLES
    view,            \* the lines of the response body, in order
    fed              \* the number of lines of view delivered as 'line' events

\* One queryDesignDocument call: the client's trustViewETags, the call's
\* options, the request() invocations it has made, what went out, and what
\* the caller has seen.
VARIABLES
    trustViewETags,      \* that.trustViewETags: "undefined", "true" or "false"
    qoptions,            \* the options of the queryDesignDocument call
    conditionalHeaders,  \* the conditionalHeaders object: "undefined", "etag", "noetag"
    qpc,                 \* "idle" before the call, "called" after it returned
    emit,                \* eventEmitter.emit of the returned handle
    subs,                \* the request() invocations, in the order they were made
    out,                 \* the transport requests, in the order they were dispatched
    trace,               \* caller's callback, emitted events, uncaught exceptions
    installs,            \* the number of installDesignDocument calls
    other                \* a second queryDesignDocument call on the client: its qpc, emit, subs, out, trace, installs

qvars == <<trustViewETags, qoptions, conditionalHeaders, qpc, emit, subs, out, trace, installs, other>>

\* One client from its construction on: the config given to the
\* constructor, the instance it made, and the calls of request() on it as
\* far as the URL they target.
VARIABLES
    config,          \* the config object given to new BeanBag(config)
    instance,        \* what the constructor produced: the properties of this, or a throw
    calls,           \* for every call of request(): the url it assembled, or a throw
    added            \* what the calls have set on the instance: _agent, the __placeholder_fn_ methods

cvars == <<config, instance, calls, added>>

\* A second request() call on the same client, overlapping the first: the
\* variables of its closure and what the caller has done with its handle.
VARIABLES
    second           \* its pc, aborts, done, numRetriesLeft, currentRequest, body, reqs, log

pvars == <<second>>

xvars == <<view, fed, qvars, cvars, pvars>>

NoConfig   == [url |-> [kind |-> "undefined", list |-> <<>>], a |-> "undefined",
               request |-> "undefined", illegalProperty |-> "undefined"]
NoInstance == [state |-> "none", props |-> NoConfig]

NoAdded    == [agent |-> FALSE, placeholderFns |-> {}]

ClientIdle == config = NoConfig /\ instance = NoInstance /\ calls = <<>> /\ added = NoAdded

ViewIdle == view = <<>> /\ fed = 0

NoSecond == [pc |-> "idle", aborts |-> 0, done |-> FALSE, numRetriesLeft |-> 0,
             currentRequest |-> 0, body |-> "undefined", reqs |-> <<>>, log |-> <<>>]

PairIdle == second = NoSecond

NoOther == [qpc |-> "idle", emit |-> "undefined", subs |-> <<>>, out |-> <<>>,
            trace |-> <<>>, installs |-> 0]

QIdle ==
    /\ trustViewETags = "undefined"
    /\ qoptions = [streamRows |-> FALSE, conditionalHeaders |-> "undefined"]
    /\ conditionalHeaders = "undefined"
    /\ qpc = "idle"
    /\ emit = "undefined"
    /\ subs = <<>>
    /\ out = <<>>
    /\ trace = <<>>
    /\ installs = 0
    /\ other = NoOther

Null == 0

Ev(ch, ev, arg) == [ch |-> ch, ev |-> ev, arg |-> arg]

\* A transport request and, once 'response' was handled, its response.
NewReq == [errored |-> FALSE, responded |-> FALSE, aborted |-> 0,
           listening |-> "none", statusCode |-> 0, contentType |-> "",
           responseError |-> NoErr, chunks |-> "", nChunks |-> 0, nLines |-> 0,
           bodyErrored |-> FALSE, ended |-> FALSE]

\* The mutable variables of the closure of one request() call.
S == [done |-> done, numRetriesLeft |-> numRetriesLeft, currentRequest |-> currentRequest,
      body |-> body, reqs |-> reqs, log |-> log]

Set(s) ==
    /\ done' = s.done
    /\ numRetriesLeft' = s.numRetriesLeft
    /\ currentRequest' = s.currentRequest
    /\ body' = s.body
    /\ reqs' = s.reqs
    /\ log' = s.log

Emit(s, ch, ev, arg) == [s EXCEPT !.log = Append(@, Ev(ch, ev, arg))]

httpErrors(statusCode) == Err(statusCode, "HttpError", <<>>)
InternalServerError(text) == Err(500, "HttpError", text)
BadGateway == Err(502, "HttpError", <<>>)

\* socketErrors(err), then the conversion of handleError
toHttpError(err) ==
    IF err.statusCode # 0 THEN err
    ELSE IF err.code \in SocketCodes THEN err
    ELSE httpErrors(500)

\* ------------------------------------------------------------- handlers
\* handleError without its guard on done
handleError_NoDoneCheck(s, err) ==
    LET e  == toHttpError(err)
        s1 == Emit([s EXCEPT !.done = TRUE], "client", "failedRequest", e)
    IN  IF cb THEN Emit(s1, "cb", "error", e) ELSE Emit(s1, "handle", "error", e)

\* handleError emitting 'error' on the handle also when a callback is given
handleError_AlsoEmits(s, err) ==
    IF s.done THEN s
    ELSE LET e  == toHttpError(err)
             s1 == Emit([s EXCEPT !.done = TRUE], "client", "failedRequest", e)
         IN  IF cb THEN Emit(Emit(s1, "cb", "error", e), "handle", "error", e)
             ELSE Emit(s1, "handle", "error", e)

handleError(s, err) ==
    IF s.done THEN s
    ELSE LET e  == toHttpError(err)
             s1 == Emit([s EXCEPT !.done = TRUE], "client", "failedRequest", e)
         IN  IF cb THEN Emit(s1, "cb", "error", e) ELSE Emit(s1, "handle", "error", e)

\* handleSuccess without its guard on done
handleSuccess_NoDoneCheck(s) ==
    LET s1 == Emit([s EXCEPT !.done = TRUE], "client", "successfulRequest", NoErr)
        s2 == Emit(s1, "handle", "end", NoErr)
    IN  IF cb THEN Emit(s2, "cb", "success", NoErr) ELSE s2

\* handleSuccess emitting 'end' before 'successfulRequest'
handleSuccess_EndFirst(s) ==
    IF s.done THEN s
    ELSE LET s1 == Emit([s EXCEPT !.done = TRUE], "handle", "end", NoErr)
             s2 == Emit(s1, "client", "successfulRequest", NoErr)
         IN  IF cb THEN Emit(s2, "cb", "success", NoErr) ELSE s2

handleSuccess(s) ==
    IF s.done THEN s
    ELSE LET s1 == Emit([s EXCEPT !.done = TRUE], "client", "successfulRequest", NoErr)
             s2 == Emit(s1, "handle", "end", NoErr)
         IN  IF cb THEN Emit(s2, "cb", "success", NoErr) ELSE s2

\* abort() that does not forget the transport request it has aborted
abort_KeepsRequest(s) ==
    LET s1 == [s EXCEPT !.done = TRUE]
    IN  IF s1.currentRequest # Null
        THEN [s1 EXCEPT !.reqs[s1.currentRequest].aborted = @ + 1]
        ELSE s1

\* eventEmitter.abort
abort(s) ==
    LET s1 == [s EXCEPT !.done = TRUE]
    IN  IF s1.currentRequest # Null
        THEN [s1 EXCEPT !.reqs[s1.currentRequest].aborted = @ + 1, !.currentRequest = Null]
        ELSE s1

\* dispatchRequest that leaves the retry budget alone for a stream body
dispatchRequest_NoClamp(s) ==
    LET s1 == [s EXCEPT !.reqs = Append(@, NewReq), !.currentRequest = Len(s.reqs) + 1]
    IN  Emit(Emit(s1, "handle", "request", NoErr), "client", "request", NoErr)

\* dispatchRequest(), up to the registration of the handlers
dispatchRequest(s) ==
    LET s1 == [s EXCEPT !.reqs = Append(@, NewReq), !.currentRequest = Len(s.reqs) + 1]
        s2 == Emit(Emit(s1, "handle", "request", NoErr), "client", "request", NoErr)
    IN  IF s2.body = "stream" THEN [s2 EXCEPT !.numRetriesLeft = 0] ELSE s2

\* the 'error' handler retrying once too often
onRequestError_OffByOne(s, err) ==
    LET s1 == [s EXCEPT !.currentRequest = Null]
    IN  IF s1.done THEN s1
        ELSE IF s1.numRetriesLeft >= 0
             THEN dispatchRequest([s1 EXCEPT !.numRetriesLeft = @ - 1])
             ELSE handleError(s1, err)

\* the 'error' handler dropping the error that no retry is left for
onRequestError_Drops(s, err) ==
    LET s1 == [s EXCEPT !.currentRequest = Null]
    IN  IF s1.done THEN s1
        ELSE IF s1.numRetriesLeft > 0
             THEN dispatchRequest([s1 EXCEPT !.numRetriesLeft = @ - 1])
             ELSE s1

\* currentRequest.on('error', ...)
onRequestError(s, err) ==
    LET s1 == [s EXCEPT !.currentRequest = Null]
    IN  IF s1.done THEN s1
        ELSE IF s1.numRetriesLeft > 0
             THEN dispatchRequest([s1 EXCEPT !.numRetriesLeft = @ - 1])
             ELSE handleError(s1, err)

returnSuccessOrError(s, r, err) ==
    LET e == IF err # NoErr THEN err ELSE s.reqs[r].responseError
    IN  IF e = NoErr THEN handleSuccess(s) ELSE handleError(s, e)

\* the 'response' handler leaving the retry budget as it is
onResponse_KeepsBudget(s, r, statusCode, contentType) ==
    LET s1 == s
    IN  IF s1.done THEN s1
        ELSE LET responseError == IF statusCode >= 400 THEN httpErrors(statusCode) ELSE NoErr
                 s2 == [s1 EXCEPT !.body = IF statusCode = 304 THEN "undefined" ELSE @,
                                  !.reqs[r].statusCode = statusCode,
                                  !.reqs[r].contentType = contentType,
                                  !.reqs[r].responseError = responseError]
                 s3 == IF responseError = NoErr THEN Emit(s2, "handle", "response", NoErr) ELSE s2
             IN  IF options.streamRows THEN [s3 EXCEPT !.reqs[r].listening = "lines"]
                 ELSE IF cb THEN [s3 EXCEPT !.reqs[r].listening = "buffer"]
                 ELSE returnSuccessOrError(s3, r, NoErr)

\* currentRequest.on('response', ...)
onResponse(s, r, statusCode, contentType) ==
    LET s1 == s
    IN  IF s1.done THEN s1
        ELSE LET responseError == IF statusCode >= 400 THEN httpErrors(statusCode) ELSE NoErr
                 s2 == [s1 EXCEPT !.numRetriesLeft = 0,
                                  !.body = IF statusCode = 304 THEN "undefined" ELSE @,
                                  !.reqs[r].statusCode = statusCode,
                                  !.reqs[r].contentType = contentType,
                                  !.reqs[r].responseError = responseError]
                 s3 == IF responseError = NoErr THEN Emit(s2, "handle", "response", NoErr) ELSE s2
             IN  IF options.streamRows THEN [s3 EXCEPT !.reqs[r].listening = "lines"]
                 ELSE IF cb THEN [s3 EXCEPT !.reqs[r].listening = "buffer"]
                 ELSE returnSuccessOrError(s3, r, NoErr)

\* response.on('line', ...) of the streamRows branch
onLine(s, r, str) ==
    IF s.done THEN s
    ELSE IF matchFirstLine(str)
    THEN IF FirstLineGroup(str) # <<>>
         THEN LET text == Braced(StripCommaWs(FirstLineGroup(str)))
              IN  IF JsonParseOk(text) THEN Emit(s, "handle", "metadata", Err(0, "", text))
                  ELSE Emit(s, "process", "uncaughtException", NoErr)
         ELSE s
    ELSE IF matchLastLine(str)
    THEN LET text == Braced(LastLineGroup(str))
         IN  IF JsonParseOk(text) THEN Emit(s, "handle", "metadata", Err(0, "", text))
             ELSE Emit(s, "process", "uncaughtException", NoErr)
    ELSE IF str = LClose \/ str = <<>> \/ str = LSep THEN s
    ELSE LET text == StripCommaCr(str)
         IN  IF JsonParseOk(text) THEN Emit(s, "handle", "row", Err(0, "", text))
             ELSE Emit(handleError(s, InternalServerError(CouldntParse \o text)),
                       "handle", "row", Err(0, "undefined", <<>>))

\* response.on('data', ...) of the buffered branch
onData(s, r, chunk) ==
    [s EXCEPT !.reqs[r].chunks = @ \o chunk, !.reqs[r].nChunks = @ + 1]

\* the 'end' handler of the buffered branch taking any body for a good one
onBufferedEnd_NoParse(s, r) ==
    returnSuccessOrError([s EXCEPT !.currentRequest = Null], r, NoErr)

\* response.on('end', ...) of the buffered branch
onBufferedEnd(s, r) ==
    LET s1 == [s EXCEPT !.currentRequest = Null]
    IN  IF /\ s1.reqs[r].nChunks > 0
           /\ isContentTypeJson(s1.reqs[r].contentType)
           /\ ~JsonBodyOk(s1.reqs[r].chunks)
        THEN handleError(s1, BadGateway)
        ELSE returnSuccessOrError(s1, r, NoErr)

\* ---------------------------------------------------------------- actions
RequestInit ==
    /\ that \in [numRetries : {0, MaxRetries}, preprocessRequestOptions : BOOLEAN]
    /\ options \in [streamRows : BOOLEAN, numRetries : {Undefined} \cup 0..MaxRetries,
                    body : BodyKinds]
    /\ cb \in BOOLEAN
    /\ pc = "idle"
    /\ done = FALSE
    /\ numRetriesLeft = 0
    /\ currentRequest = Null
    /\ body = "undefined"
    /\ reqs = <<>>
    /\ log = <<>>
    /\ aborts = 0
    /\ cancelled = FALSE
    /\ late = FALSE

Init == RequestInit /\ ViewIdle /\ QIdle /\ ClientIdle /\ PairIdle

\* request() taking a numRetries of 0 in the options for a missing one
Request_Falsy ==
    /\ pc = "idle"
    /\ LET s0 == [S EXCEPT !.numRetriesLeft =
                        IF options.streamRows THEN 0
                        ELSE IF options.numRetries > 0 THEN options.numRetries
                        ELSE that.numRetries,
                     !.body = IF options.body = "object" THEN "string" ELSE options.body]
       IN  IF that.preprocessRequestOptions
           THEN pc' = "hook" /\ Set(s0)
           ELSE pc' = "running" /\ Set(dispatchRequest(s0))
    /\ UNCHANGED <<xvars, that, options, cb, aborts, cancelled, late>>

\* request(options, cb) up to its return
Request ==
    /\ pc = "idle"
    /\ LET s0 == [S EXCEPT !.numRetriesLeft =
                        IF options.streamRows THEN 0
                        ELSE IF options.numRetries # Undefined THEN options.numRetries
                        ELSE that.numRetries,
                     !.body = IF options.body = "object" THEN "string" ELSE options.body]
       IN  IF that.preprocessRequestOptions
           THEN pc' = "hook" /\ Set(s0)
           ELSE pc' = "running" /\ Set(dispatchRequest(s0))
    /\ UNCHANGED <<xvars, that, options, cb, aborts, cancelled, late>>

\* the hook calls back without error: passError(handleError, dispatchRequest)
HookContinue ==
    /\ pc = "hook"
    /\ pc' = "running"
    /\ Set(dispatchRequest(S))
    /\ UNCHANGED <<xvars, that, options, cb, aborts, cancelled, late>>

\* the hook's error taken for its success: the request is dispatched
HookError_Dispatches ==
    /\ pc = "hook"
    /\ pc' = "running"
    /\ \E err \in HookErrors : Set(dispatchRequest(S))
    /\ UNCHANGED <<xvars, that, options, cb, aborts, cancelled, late>>

\* the hook calls back with an error
HookError ==
    /\ pc = "hook"
    /\ pc' = "running"
    /\ \E err \in HookErrors : Set(handleError(S, err))
    /\ UNCHANGED <<xvars, that, options, cb, aborts, cancelled, late>>

\* the caller calls abort() on the returned handle
Abort ==
    /\ pc # "idle"
    /\ aborts < MaxAborts
    /\ aborts' = aborts + 1
    /\ cancelled' = (cancelled \/ ~done)
    /\ Set(abort(S))
    /\ UNCHANGED <<xvars, that, options, cb, pc, late>>

\* The environment keeps track of what each transport request and response
\* has emitted while the invocation is not done; an event delivered after
\* done is only noted in late.
Note(r, field, value) == IF done THEN S ELSE [S EXCEPT !.reqs[r][field] = value]

\* the transport request r emits 'error'
TransportError ==
    \E r \in 1..Len(reqs), err \in TransportErrors :
        /\ ~reqs[r].errored
        /\ Set(onRequestError(Note(r, "errored", TRUE), err))
        /\ late' = (late \/ done)
        /\ UNCHANGED <<xvars, that, options, cb, pc, aborts, cancelled>>

\* the transport request r emits 'response'; node emits no 'response' on a
\* request after its 'error', the model delivers that late 'response' only
\* to an invocation that is done
TransportResponse ==
    \E r \in 1..Len(reqs), statusCode \in StatusCodes, contentType \in ContentTypes :
        /\ ~reqs[r].responded
        /\ ~reqs[r].errored \/ done
        /\ Set(onResponse(Note(r, "responded", TRUE), r, statusCode, contentType))
        /\ late' = (late \/ done)
        /\ UNCHANGED <<xvars, that, options, cb, pc, aborts, cancelled>>

BodyOpen(r) == ~reqs[r].ended /\ ~reqs[r].bodyErrored

\* the response of r delivers one line
ResponseLine ==
    \E r \in 1..Len(reqs), str \in Lines :
        /\ reqs[r].listening = "lines"
        /\ BodyOpen(r)
        /\ reqs[r].nLines < MaxLines
        /\ Set(onLine(Note(r, "nLines", reqs[r].nLines + 1), r, str))
        /\ late' = (late \/ done)
        /\ UNCHANGED <<xvars, that, options, cb, pc, aborts, cancelled>>

\* the response of r delivers one chunk; a chunk delivered after done changes
\* nothing the code reads again and is left out
ResponseData ==
    \E r \in 1..Len(reqs), chunk \in Chunks :
        /\ reqs[r].listening = "buffer"
        /\ ~done
        /\ BodyOpen(r)
        /\ reqs[r].nChunks < MaxChunks
        /\ Set(onData(S, r, chunk))
        /\ UNCHANGED <<xvars, that, options, cb, pc, aborts, cancelled, late>>

\* the response of r emits 'error'
ResponseError ==
    \E r \in 1..Len(reqs), err \in BodyErrors :
        /\ reqs[r].listening # "none"
        /\ BodyOpen(r)
        /\ Set(returnSuccessOrError(Note(r, "bodyErrored", TRUE), r, err))
        /\ late' = (late \/ done)
        /\ UNCHANGED <<xvars, that, options, cb, pc, aborts, cancelled>>

\* the response of r emits 'end'
ResponseEnd ==
    \E r \in 1..Len(reqs) :
        /\ reqs[r].listening # "none"
        /\ ~reqs[r].ended
        /\ IF reqs[r].listening = "buffer"
           THEN Set(onBufferedEnd(Note(r, "ended", TRUE), r))
           ELSE Set(returnSuccessOrError(Note(r, "ended", TRUE), r, NoErr))
        /\ late' = (late \/ done)
        /\ UNCHANGED <<xvars, that, options, cb, pc, aborts, cancelled>>

Next ==
    \/ Request
    \/ HookContinue
    \/ HookError
    \/ Abort
    \/ TransportError
    \/ TransportResponse
    \/ ResponseLine
    \/ ResponseData
    \/ ResponseError
    \/ ResponseEnd

Spec == Init /\ [][Next]_vars

\* One request() call on a client that retries once, every transport
\* request of which eventually emits 'error' or 'response', the body of
\* every response eventually 'end' or 'error'.
LiveInit ==
    /\ that \in [numRetries : {1}, preprocessRequestOptions : BOOLEAN]
    /\ options \in [streamRows : BOOLEAN, numRetries : {Undefined}, body : {"undefined"}]
    /\ cb \in BOOLEAN
    /\ pc = "idle"
    /\ done = FALSE
    /\ numRetriesLeft = 0
    /\ currentRequest = Null
    /\ body = "undefined"
    /\ reqs = <<>>
    /\ log = <<>>
    /\ aborts = 0
    /\ cancelled = FALSE
    /\ late = FALSE
    /\ ViewIdle
    /\ QIdle
    /\ ClientIdle
    /\ PairIdle

\* the transport and the response streams delivering an event
Deliver == TransportError \/ TransportResponse \/ ResponseError \/ ResponseEnd

SpecLive == LiveInit /\ [][Next]_vars /\ WF_vars(Deliver)

\* ------------------------------------------- a view response, line by line
ViewLines == {LOpenMeta, LRow, LRowB, LClose, LSep, LEmpty}

ViewInit ==
    /\ that = [numRetries |-> 0, preprocessRequestOptions |-> FALSE]
    /\ options = [streamRows |-> TRUE, numRetries |-> Undefined, body |-> "undefined"]
    /\ cb = FALSE
    /\ pc = "idle"
    /\ done = FALSE
    /\ numRetriesLeft = 0
    /\ currentRequest = Null
    /\ body = "undefined"
    /\ reqs = <<>>
    /\ log = <<>>
    /\ aborts = 0
    /\ cancelled = FALSE
    /\ late = FALSE
    /\ view \in UNION {[1..n -> ViewLines] : n \in 0..MaxFeed}
    /\ fed = 0
    /\ QIdle
    /\ ClientIdle
    /\ PairIdle

\* the response of r delivers the next line of view
ViewLine ==
    \E r \in 1..Len(reqs) :
        /\ reqs[r].listening = "lines"
        /\ BodyOpen(r)
        /\ fed < Len(view)
        /\ fed' = fed + 1
        /\ Set(onLine(Note(r, "nLines", reqs[r].nLines + 1), r, view[fed + 1]))
        /\ UNCHANGED <<view, qvars, cvars, pvars, that, options, cb, pc, aborts, cancelled, late>>

ViewNext ==
    \/ Request
    \/ TransportResponse
    \/ ViewLine
    \/ ResponseEnd

SpecView == ViewInit /\ [][ViewNext]_<<vars, xvars>>

\* ------------------------------------------------ queryDesignDocument
\* Every that.request(options, callback) made by queryDesignDocument and
\* installDesignDocument is one entry of subs.  request() is taken by its
\* contract with the callback: the preprocessRequestOptions hook, when there
\* is one, comes before the dispatch; a transport error is retried while
\* numRetriesLeft > 0; the callback gets (err) from handleError or
\* (null, response, body) from handleSuccess.

\* '_design/'
DesignPrefix == <<"_", "d", "e", "s", "i", "g", "n", "/">>

\* that.designDocumentVersion, the fingerprint of the design document
designDocumentVersion == <<"f">>

IdCurrent == DesignPrefix \o designDocumentVersion
IdOld     == DesignPrefix \o <<"o">>
IdInner   == <<"x">> \o DesignPrefix \o <<"o">>
RowIds    == {IdCurrent, IdOld, IdInner}
\* the revision the listing gives for a document
RevOf(id) ==
    CASE id = IdCurrent -> "1-a"
      [] id = IdOld     -> "2-b"
      [] OTHER          -> "3-c"

\* a row of the _all_docs listing: row.id and row.value.rev
Rows  == {[id |-> id, rev |-> RevOf(id)] : id \in RowIds}
NoRow == [id |-> <<>>, rev |-> ""]

\* /^_design\//.test(id)
IsDesignId(id) ==
    /\ Len(id) >= Len(DesignPrefix)
    /\ SubSeq(id, 1, Len(DesignPrefix)) = DesignPrefix

\* what the callback of the _all_docs request gets as body: nothing, an
\* object without rows, or an object with rows
NoBody == [defined |-> FALSE, hasRows |-> FALSE, rows |-> <<>>]
Listings ==
    {NoBody, [defined |-> TRUE, hasRows |-> FALSE, rows |-> <<>>]} \cup
    {[defined |-> TRUE, hasRows |-> TRUE, rows |-> r] :
        r \in UNION {[1..n -> Rows] : n \in 0..MaxRows}}

\* the status codes a request of each kind is answered with
StatusesOf(kind) ==
    CASE kind = "view"    -> {200, 404, 500}
      [] kind = "put"     -> {201, 409, 500}
      [] kind = "alldocs" -> {200, 500}
      [] kind = "init"    -> {201, 412, 500}
      [] OTHER            -> {200, 409}

NotFound(err) == err.statusCode = 404
Conflict(err) == err.statusCode = 409

\* !that.trustViewETags is false only for a true trustViewETags
Truthy(value) == value = "true"

\* the emitter request() creates, and the one queryDesignDocument returns
RequestEmitter  == "request"
ReturnedEmitter == "returned"

Tr(what, on, ev, err, response) ==
    [what |-> what, on |-> on, ev |-> ev, err |-> err, response |-> response]

Q == [subs |-> subs, out |-> out, trace |-> trace, installs |-> installs, emit |-> emit]

QSet(q) ==
    /\ subs' = q.subs
    /\ out' = q.out
    /\ trace' = q.trace
    /\ installs' = q.installs
    /\ emit' = q.emit

Method(kind) ==
    CASE kind \in {"put", "init"} -> "PUT"
      [] kind = "delete" -> "DELETE"
      [] kind = "temp" -> "POST"
      [] OTHER -> "GET"

\* the path of the request, without the query string
Path(kind, row) ==
    CASE kind = "view"    -> IdCurrent \o <<"/", "_view/", "viewName">>
      [] kind = "put"     -> IdCurrent
      [] kind = "alldocs" -> <<"_all_docs">>
      [] kind = "init"    -> <<>>
      [] kind = "temp"    -> <<"_temp_view">>
      [] OTHER            -> row.id

\* dispatchRequest of the i-th request() invocation
dispatch(q, i) ==
    LET sub == q.subs[i] IN
    [q EXCEPT !.subs[i].phase = "sent",
              !.out = Append(@, [sub |-> i, method |-> Method(sub.kind),
                                 path |-> Path(sub.kind, sub.row),
                                 rev |-> sub.row.rev,
                                 etag |-> (sub.kind = "view" /\ conditionalHeaders = "etag")])]

\* that.request(options, callback) up to its return
request(q, kind, callback, row) ==
    LET sub == [kind |-> kind, callback |-> callback, phase |-> "hook",
                numRetriesLeft |-> IF kind = "view" /\ qoptions.streamRows
                                   THEN 0 ELSE that.numRetries,
                row |-> row,
                \* what its callback was called with
                err |-> NoErr, response |-> "undefined", listing |-> NoBody]
        q1 == [q EXCEPT !.subs = Append(@, sub)]
    IN  IF that.preprocessRequestOptions THEN q1 ELSE dispatch(q1, Len(q1.subs))

\* the caller's cb(err, response, body); of the response the model keeps
\* whether cacheInfo.headers has an etag
callCb(q, err, response) ==
    [q EXCEPT !.trace = Append(@, Tr("cb", "", "", err, response))]

\* a TypeError thrown inside a callback of request(): nothing catches it
throwTypeError(q, where) ==
    [q EXCEPT !.trace = Append(@, Tr("throw", where, "TypeError", NoErr, "undefined"))]

\* performOperation(callback)
performOperation(q, callback) ==
    request([q EXCEPT !.emit = IF qoptions.streamRows THEN callback ELSE @],
            "view", callback, NoRow)

\* installDesignDocument(options, cb) up to its return
installDesignDocument(q) ==
    request([q EXCEPT !.installs = @ + 1], "put", "install", NoRow)

\* the callback of the first performOperation
onFirst(q, err, response) ==
    IF err # NoErr /\ NotFound(err) THEN installDesignDocument(q)
    ELSE IF ~Truthy(trustViewETags)
         THEN IF response = "undefined" THEN throwTypeError(q, "first")
              ELSE callCb(q, err, "noetag")
         ELSE callCb(q, err, response)

\* the cleanup deleting every design document of the listing
RECURSIVE forEachRow_All(_, _)
forEachRow_All(q, rows) ==
    IF rows = <<>> THEN q
    ELSE forEachRow_All(IF IsDesignId(Head(rows).id)
                        THEN request(q, "delete", "delete", Head(rows))
                        ELSE q,
                        Tail(rows))

\* (body.rows || []).forEach(...)
RECURSIVE forEachRow(_, _)
forEachRow(q, rows) ==
    IF rows = <<>> THEN q
    ELSE forEachRow(IF IsDesignId(Head(rows).id) /\ Head(rows).id # IdCurrent
                    THEN request(q, "delete", "delete", Head(rows))
                    ELSE q,
                    Tail(rows))

\* the callback of the _all_docs request
onCleanup(q, err, listing) ==
    IF err # NoErr THEN q
    ELSE IF ~listing.defined THEN throwTypeError(q, "cleanup")
    ELSE forEachRow(q, IF listing.hasRows THEN listing.rows ELSE <<>>)

\* the callback of the PUT, retrying through the callback of the first attempt
onInstall_RetriesAsFirst(q, err) ==
    IF err = NoErr THEN request(performOperation(q, "first"), "alldocs", "cleanup", NoRow)
    ELSE IF Conflict(err) THEN performOperation(q, "first")
    ELSE callCb(q, err, "undefined")

\* the callback of the PUT, taking a 409 Conflict for a failure
onInstall_ConflictFails(q, err) ==
    IF err = NoErr THEN request(performOperation(q, "cb"), "alldocs", "cleanup", NoRow)
    ELSE callCb(q, err, "undefined")

\* the callback of the PUT, starting the cleanup before calling cb()
onInstall_CleanupFirst(q, err) ==
    IF err = NoErr THEN performOperation(request(q, "alldocs", "cleanup", NoRow), "cb")
    ELSE IF Conflict(err) THEN performOperation(q, "cb")
    ELSE callCb(q, err, "undefined")

\* the callback of the PUT reporting success to the caller on a 409 Conflict
onInstall_ConflictReports(q, err) ==
    IF err = NoErr THEN request(performOperation(q, "cb"), "alldocs", "cleanup", NoRow)
    ELSE IF Conflict(err) THEN callCb(q, NoErr, "undefined")
    ELSE callCb(q, err, "undefined")

\* the callback of the PUT cleaning up after a 409 Conflict as well
onInstall_CleanupOnConflict(q, err) ==
    IF err = NoErr \/ Conflict(err)
    THEN request(performOperation(q, "cb"), "alldocs", "cleanup", NoRow)
    ELSE callCb(q, err, "undefined")

\* the callback of the PUT of installDesignDocument; its cb is
\* passError(cb, function () { performOperation(cb); })
onInstall(q, err) ==
    IF err = NoErr THEN request(performOperation(q, "cb"), "alldocs", "cleanup", NoRow)
    ELSE IF Conflict(err) THEN performOperation(q, "cb")
    ELSE callCb(q, err, "undefined")

PreconditionFailed(err) == err.statusCode = 412

\* the callback of the PUT of init() reporting every error
onInit_Strict(q, err) == callCb(q, err, "undefined")

\* the callback of the PUT of init()
onInit(q, err) ==
    IF err # NoErr /\ ~PreconditionFailed(err) THEN callCb(q, err, "undefined")
    ELSE callCb(q, NoErr, "undefined")

\* handleError / handleSuccess of the i-th request() invocation calling its
\* callback
callback(q, i, err, response, listing) ==
    LET q1 == [q EXCEPT !.subs[i].phase = "done", !.subs[i].err = err,
                        !.subs[i].response = response, !.subs[i].listing = listing]
        name == q.subs[i].callback
    IN  CASE name = "first"   -> onFirst(q1, err, response)
          [] name = "cb"      -> callCb(q1, err, response)
          [] name = "install" -> onInstall(q1, err)
          [] name = "cleanup" -> onCleanup(q1, err, listing)
          [] name = "init"    -> onInit(q1, err)
          [] OTHER            -> q1

\* the events of a streamed view response, emitted by request()
emitRows(q) ==
    [q EXCEPT !.trace = @ \o <<Tr("event", RequestEmitter, "metadata", NoErr, ""),
                               Tr("event", RequestEmitter, "row", NoErr, ""),
                               Tr("event", RequestEmitter, "end", NoErr, "")>>]


\* the client retries transport errors, or has a preprocessRequestOptions
\* hook, or neither
QInit ==
    /\ that \in {[numRetries |-> 0, preprocessRequestOptions |-> FALSE],
                 [numRetries |-> MaxQRetries, preprocessRequestOptions |-> FALSE],
                 [numRetries |-> 0, preprocessRequestOptions |-> TRUE]}
    /\ options = [streamRows |-> FALSE, numRetries |-> Undefined, body |-> "undefined"]
    /\ cb = TRUE
    /\ pc = "idle"
    /\ done = FALSE
    /\ numRetriesLeft = 0
    /\ currentRequest = Null
    /\ body = "undefined"
    /\ reqs = <<>>
    /\ log = <<>>
    /\ aborts = 0
    /\ cancelled = FALSE
    /\ late = FALSE
    /\ ViewIdle
    /\ trustViewETags \in {"undefined", "true", "false"}
    /\ qoptions \in [streamRows : BOOLEAN, conditionalHeaders : {"undefined", "etag"}]
    /\ conditionalHeaders = qoptions.conditionalHeaders
    /\ qpc = "idle"
    /\ emit = "undefined"
    /\ subs = <<>>
    /\ out = <<>>
    /\ trace = <<>>
    /\ installs = 0
    /\ other = NoOther
    /\ ClientIdle
    /\ PairIdle

\* queryDesignDocument(options, cb) up to its return
QueryDesignDocument ==
    /\ qpc = "idle"
    /\ qpc' = "called"
    /\ conditionalHeaders' =
           IF conditionalHeaders # "undefined" /\ ~Truthy(trustViewETags)
           THEN "noetag" ELSE conditionalHeaders
    /\ QSet(LET q == [Q EXCEPT !.emit = IF qoptions.streamRows THEN "prototype" ELSE @]
                q1 == performOperation(q, "first")
            IN  \* the dispatch reads the headers after the delete of line 508
                [q1 EXCEPT !.out = [k \in DOMAIN q1.out |->
                                       [q1.out[k] EXCEPT !.etag = (conditionalHeaders' = "etag")]]])
    /\ UNCHANGED <<trustViewETags, qoptions, other, vars, view, fed, cvars, pvars>>

\* the preprocessRequestOptions hook of a request() calls back without error
SubHookContinue ==
    \E i \in 1..Len(subs) :
        /\ subs[i].phase = "hook"
        /\ QSet(dispatch(Q, i))
        /\ UNCHANGED <<trustViewETags, qoptions, conditionalHeaders, qpc, other, vars, view, fed, cvars, pvars>>

\* the preprocessRequestOptions hook of a request() calls back with an error
SubHookError ==
    \E i \in 1..Len(subs), err \in HookErrors :
        /\ subs[i].phase = "hook"
        /\ QSet(callback(Q, i, toHttpError(err), "undefined", NoBody))
        /\ UNCHANGED <<trustViewETags, qoptions, conditionalHeaders, qpc, other, vars, view, fed, cvars, pvars>>

\* 'error' on the transport request of a request()
SubTransportError ==
    \E i \in 1..Len(subs), err \in TransportErrors :
        /\ subs[i].phase = "sent"
        /\ QSet(IF subs[i].numRetriesLeft > 0
                THEN dispatch([Q EXCEPT !.subs[i].numRetriesLeft = @ - 1], i)
                ELSE callback(Q, i, toHttpError(err), "undefined", NoBody))
        /\ UNCHANGED <<trustViewETags, qoptions, conditionalHeaders, qpc, other, vars, view, fed, cvars, pvars>>

\* the response of a request(), up to its 'end'
SubResponse ==
    \E i \in 1..Len(subs) :
        \E statusCode \in StatusesOf(subs[i].kind),
           etag \in (IF subs[i].kind = "view" THEN {"etag", "noetag"} ELSE {"noetag"}) :
            \E listing \in (IF subs[i].kind = "alldocs" /\ statusCode < 400
                            THEN Listings ELSE {NoBody}) :
                /\ subs[i].phase = "sent"
                /\ QSet(IF statusCode >= 400
                        THEN callback(Q, i, httpErrors(statusCode), "undefined", NoBody)
                        ELSE callback(IF subs[i].kind = "view" /\ qoptions.streamRows
                                      THEN emitRows(Q) ELSE Q,
                                      i, NoErr, etag, listing))
                /\ UNCHANGED <<trustViewETags, qoptions, conditionalHeaders, qpc, other, vars, view, fed, cvars, pvars>>

QNext ==
    \/ QueryDesignDocument
    \/ SubHookContinue
    \/ SubHookError
    \/ SubTransportError
    \/ SubResponse

SpecQuery == QInit /\ [][QNext]_<<vars, xvars>>

\* init(options, cb) up to its return
CallInit ==
    /\ qpc = "idle"
    /\ qpc' = "init"
    /\ QSet(request(Q, "init", "init", NoRow))
    /\ UNCHANGED <<trustViewETags, qoptions, conditionalHeaders, other, vars, view, fed, cvars, pvars>>

InitNext ==
    \/ CallInit
    \/ SubHookContinue
    \/ SubHookError
    \/ SubTransportError
    \/ SubResponse

SpecInit == QInit /\ [][InitNext]_<<vars, xvars>>

\* --------------------------------- two queryDesignDocument calls at once
\* Two queryDesignDocument calls on one client with options of the same
\* values.  Each call has its own closure: k = 1 is kept in the variables
\* of the single call, k = 2 in other.
Invocations == 1..2

Inv(k) ==
    IF k = 1 THEN [qpc |-> qpc, emit |-> emit, subs |-> subs, out |-> out,
                   trace |-> trace, installs |-> installs]
    ELSE other

InvSet(k, q) ==
    IF k = 1 THEN QSet(q) /\ qpc' = q.qpc /\ other' = other
    ELSE other' = q /\ UNCHANGED <<qpc, emit, subs, out, trace, installs>>

\* the listing the cleanup is answered with: the current design document alone
OverlapListings ==
    {[defined |-> TRUE, hasRows |-> TRUE, rows |-> <<[id |-> IdCurrent, rev |-> RevOf(IdCurrent)]>>]}

\* the status codes the requests of the two calls are answered with
OverlapStatusesOf(kind) ==
    CASE kind = "view"    -> {200, 404}
      [] kind = "put"     -> {201, 409, 500}
      [] kind = "alldocs" -> {200}
      [] OTHER            -> {200}

\* the client of the two calls: plain, retrying once, or with a hook
OverlapClients ==
    {[numRetries |-> 0, preprocessRequestOptions |-> FALSE],
     [numRetries |-> 1, preprocessRequestOptions |-> FALSE],
     [numRetries |-> 0, preprocessRequestOptions |-> TRUE]}

OverlapInit ==
    /\ that \in OverlapClients
    /\ options = [streamRows |-> FALSE, numRetries |-> Undefined, body |-> "undefined"]
    /\ cb = TRUE
    /\ pc = "idle"
    /\ done = FALSE
    /\ numRetriesLeft = 0
    /\ currentRequest = Null
    /\ body = "undefined"
    /\ reqs = <<>>
    /\ log = <<>>
    /\ aborts = 0
    /\ cancelled = FALSE
    /\ late = FALSE
    /\ ViewIdle
    /\ trustViewETags = "true"
    /\ qoptions = [streamRows |-> FALSE, conditionalHeaders |-> "undefined"]
    /\ conditionalHeaders = qoptions.conditionalHeaders
    /\ qpc = "idle"
    /\ emit = "undefined"
    /\ subs = <<>>
    /\ out = <<>>
    /\ trace = <<>>
    /\ installs = 0
    /\ other = NoOther
    /\ ClientIdle
    /\ PairIdle

\* queryDesignDocument(options, cb) of one of the two calls, up to its return
OverlapCall ==
    \E k \in Invocations :
        /\ Inv(k).qpc = "idle"
        /\ InvSet(k, performOperation(
                         [Inv(k) EXCEPT !.qpc = "called",
                                        !.emit = IF qoptions.streamRows THEN "prototype" ELSE @],
                         "first"))
        /\ UNCHANGED <<trustViewETags, qoptions, conditionalHeaders, vars, view, fed, cvars, pvars>>

\* the preprocessRequestOptions hook of a request() calls back without error
OverlapHookContinue ==
    \E k \in Invocations :
        \E i \in 1..Len(Inv(k).subs) :
            /\ Inv(k).subs[i].phase = "hook"
            /\ InvSet(k, dispatch(Inv(k), i))
            /\ UNCHANGED <<trustViewETags, qoptions, conditionalHeaders, vars, view, fed, cvars, pvars>>

\* the preprocessRequestOptions hook of a request() calls back with an error
OverlapHookError ==
    \E k \in Invocations :
        \E i \in 1..Len(Inv(k).subs), err \in TransportErrors :
            /\ Inv(k).subs[i].phase = "hook"
            /\ InvSet(k, callback(Inv(k), i, toHttpError(err), "undefined", NoBody))
            /\ UNCHANGED <<trustViewETags, qoptions, conditionalHeaders, vars, view, fed, cvars, pvars>>

\* 'error' on the transport request of a request()
OverlapTransportError ==
    \E k \in Invocations :
        \E i \in 1..Len(Inv(k).subs), err \in TransportErrors :
            /\ Inv(k).subs[i].phase = "sent"
            /\ InvSet(k, IF Inv(k).subs[i].numRetriesLeft > 0
                         THEN dispatch([Inv(k) EXCEPT !.subs[i].numRetriesLeft = @ - 1], i)
                         ELSE callback(Inv(k), i, toHttpError(err), "undefined", NoBody))
            /\ UNCHANGED <<trustViewETags, qoptions, conditionalHeaders, vars, view, fed, cvars, pvars>>

\* the response of a request(), up to its 'end'
OverlapResponse ==
    \E k \in Invocations :
        \E i \in 1..Len(Inv(k).subs) :
            \E statusCode \in OverlapStatusesOf(Inv(k).subs[i].kind),
               etag \in (IF Inv(k).subs[i].kind = "view" THEN {"etag", "noetag"} ELSE {"noetag"}) :
                \E listing \in (IF Inv(k).subs[i].kind = "alldocs" /\ statusCode < 400
                                THEN OverlapListings ELSE {NoBody}) :
                    /\ Inv(k).subs[i].phase = "sent"
                    /\ InvSet(k, IF statusCode >= 400
                                 THEN callback(Inv(k), i, httpErrors(statusCode), "undefined", NoBody)
                                 ELSE callback(IF Inv(k).subs[i].kind = "view" /\ qoptions.streamRows
                                               THEN emitRows(Inv(k)) ELSE Inv(k),
                                               i, NoErr, etag, listing))
                    /\ UNCHANGED <<trustViewETags, qoptions, conditionalHeaders, vars, view, fed, cvars, pvars>>

OverlapNext ==
    \/ OverlapCall
    \/ OverlapHookContinue
    \/ OverlapHookError
    \/ OverlapTransportError
    \/ OverlapResponse

SpecOverlap == OverlapInit /\ [][OverlapNext]_<<vars, xvars>>

\* ------------------------------------ queryDesignDocument, temporary view
\* The client's design document: none, one without views, one whose views
\* lack viewName, one whose views[viewName] has a map, or a map and a
\* reduce, and one that has, besides views[viewName], a key viewName of its own.
DesignDocuments == {"undefined", "noviews", "otherview", "map", "mapreduce", "toplevel"}

\* that.designDocument.views[viewName], as far as it is defined
HasView(dd) == dd \in {"map", "mapreduce", "toplevel"}
ViewOf(dd)  == [map    |-> IF HasView(dd) THEN "map" ELSE "undefined",
                reduce |-> IF dd = "mapreduce" THEN "reduce" ELSE "undefined"]
NoView      == [map |-> "undefined", reduce |-> "undefined"]

\* that.designDocument[viewName]: the keys of a design document are _id,
\* language, views and the like, a view name is a key of views
TopLevel(dd) == IF dd = "toplevel" THEN [map |-> "other", reduce |-> "undefined"] ELSE NoView

\* _.extend({language: 'javascript'}, view)
TempBody(v) == [language |-> "javascript", map |-> v.map, reduce |-> v.reduce]

\* throw new Error(message) in queryDesignDocument
throwError(q, message) ==
    [q EXCEPT !.trace = Append(@, Tr("throw", "queryDesignDocument", message, NoErr, "undefined"))]

\* queryTemporaryView(options, cb): one request(), a POST to _temp_view
queryTemporaryView(q, v, name) ==
    LET q1 == request(q, "temp", name, NoRow)
    IN  [q1 EXCEPT !.subs[Len(q1.subs)] =
                       [kind |-> @.kind, callback |-> @.callback, phase |-> @.phase,
                        numRetriesLeft |-> @.numRetriesLeft, row |-> @.row, err |-> @.err,
                        response |-> @.response, listing |-> @.listing, body |-> TempBody(v)]]

TempInit ==
    /\ that \in [numRetries : {0, MaxQRetries}, preprocessRequestOptions : BOOLEAN,
                 designDocument : DesignDocuments]
    /\ options = [streamRows |-> FALSE, numRetries |-> Undefined, body |-> "undefined"]
    /\ cb = TRUE
    /\ pc = "idle"
    /\ done = FALSE
    /\ numRetriesLeft = 0
    /\ currentRequest = Null
    /\ body = "undefined"
    /\ reqs = <<>>
    /\ log = <<>>
    /\ aborts = 0
    /\ cancelled = FALSE
    /\ late = FALSE
    /\ ViewIdle
    /\ trustViewETags = "true"
    /\ qoptions \in [streamRows : BOOLEAN, conditionalHeaders : {"undefined"},
                     temporary : {TRUE}, listName : {"undefined", "l"}]
    /\ conditionalHeaders = qoptions.conditionalHeaders
    /\ qpc = "idle"
    /\ emit = "undefined"
    /\ subs = <<>>
    /\ out = <<>>
    /\ trace = <<>>
    /\ installs = 0
    /\ other = NoOther
    /\ ClientIdle
    /\ PairIdle

\* queryDesignDocument(options, cb) up to its return or its throw
TempCall ==
    /\ qpc = "idle"
    /\ qpc' = "called"
    /\ QSet(IF ~HasView(that.designDocument)
            THEN throwError(Q, "not found in design document")
            ELSE IF qoptions.temporary
            THEN IF qoptions.listName # "undefined"
                 THEN throwError(Q, "options.listName not supported")
                 ELSE queryTemporaryView(Q, TopLevel(that.designDocument), "cb")
            ELSE performOperation([Q EXCEPT !.emit = IF qoptions.streamRows
                                                    THEN "prototype" ELSE @], "first"))
    /\ UNCHANGED <<trustViewETags, qoptions, conditionalHeaders, other, vars, view, fed, cvars, pvars>>

TempNext ==
    \/ TempCall
    \/ SubHookContinue
    \/ SubHookError
    \/ SubTransportError
    \/ SubResponse

SpecTemp == TempInit /\ [][TempNext]_<<vars, xvars>>

\* ------------------------------------------- two request() calls at once
\* Two request() calls on one client, with options of the same values and
\* a callback each.  The variables of the closure of call k = 1 are the
\* variables of the single call, those of k = 2 are in second.
Calls == 1..2

PairS(k) ==
    IF k = 1 THEN [pc |-> pc, aborts |-> aborts, done |-> done,
                   numRetriesLeft |-> numRetriesLeft, currentRequest |-> currentRequest,
                   body |-> body, reqs |-> reqs, log |-> log]
    ELSE second

\* closures that share done: an assignment of one call is seen by the other
PairSet_SharedDone(k, s) ==
    IF k = 1 THEN Set(s) /\ pc' = s.pc /\ aborts' = s.aborts
                  /\ second' = [second EXCEPT !.done = s.done]
    ELSE second' = s /\ done' = s.done
         /\ UNCHANGED <<pc, aborts, numRetriesLeft, currentRequest, body, reqs, log>>

PairSet(k, s) ==
    IF k = 1 THEN Set(s) /\ pc' = s.pc /\ aborts' = s.aborts /\ second' = second
    ELSE second' = s
         /\ UNCHANGED <<pc, aborts, done, numRetriesLeft, currentRequest, body, reqs, log>>

\* the client retries once and has no hook; the calls have a callback each
\* and buffer the body, or have none
PairInit ==
    /\ that = [numRetries |-> 1, preprocessRequestOptions |-> FALSE]
    /\ options = [streamRows |-> FALSE, numRetries |-> Undefined, body |-> "undefined"]
    /\ cb \in BOOLEAN
    /\ pc = "idle"
    /\ done = FALSE
    /\ numRetriesLeft = 0
    /\ currentRequest = Null
    /\ body = "undefined"
    /\ reqs = <<>>
    /\ log = <<>>
    /\ aborts = 0
    /\ cancelled = FALSE
    /\ late = FALSE
    /\ ViewIdle
    /\ QIdle
    /\ ClientIdle
    /\ PairIdle

\* request(options, cb) of one of the two calls, up to its return
PairRequest ==
    \E k \in Calls :
        /\ PairS(k).pc = "idle"
        /\ LET s0 == [PairS(k) EXCEPT !.numRetriesLeft =
                            IF options.streamRows THEN 0
                            ELSE IF options.numRetries # Undefined THEN options.numRetries
                            ELSE that.numRetries,
                         !.body = IF options.body = "object" THEN "string" ELSE options.body]
           IN  IF that.preprocessRequestOptions
               THEN PairSet(k, [s0 EXCEPT !.pc = "hook"])
               ELSE PairSet(k, dispatchRequest([s0 EXCEPT !.pc = "running"]))
        /\ UNCHANGED <<that, options, cb, cancelled, late, view, fed, qvars, cvars>>

\* the caller calls abort() on the handle of one of the two calls
PairAbort ==
    \E k \in Calls :
        /\ PairS(k).pc # "idle"
        /\ PairS(k).aborts < MaxAborts
        /\ PairSet(k, abort([PairS(k) EXCEPT !.aborts = @ + 1]))
        /\ UNCHANGED <<that, options, cb, cancelled, late, view, fed, qvars, cvars>>

\* what a transport request or its response has emitted, noted while the
\* call is not done
PairNote(s, r, field, value) == IF s.done THEN s ELSE [s EXCEPT !.reqs[r][field] = value]

\* a transport request of one of the two calls emits 'error'
PairTransportError ==
    \E k \in Calls :
        \E r \in 1..Len(PairS(k).reqs), err \in TransportErrors :
            /\ ~PairS(k).reqs[r].errored
            /\ PairSet(k, onRequestError(PairNote(PairS(k), r, "errored", TRUE), err))
            /\ UNCHANGED <<that, options, cb, cancelled, late, view, fed, qvars, cvars>>

\* a transport request of one of the two calls emits 'response'
PairTransportResponse ==
    \E k \in Calls :
        \E r \in 1..Len(PairS(k).reqs), statusCode \in {200, 404} :
            /\ ~PairS(k).reqs[r].responded
            /\ ~PairS(k).reqs[r].errored \/ PairS(k).done
            /\ PairSet(k, onResponse(PairNote(PairS(k), r, "responded", TRUE), r,
                                     statusCode, "application/json"))
            /\ UNCHANGED <<that, options, cb, cancelled, late, view, fed, qvars, cvars>>

\* the response of a transport request of one of the two calls emits 'end'
PairResponseEnd ==
    \E k \in Calls :
        \E r \in 1..Len(PairS(k).reqs) :
            /\ PairS(k).reqs[r].listening # "none"
            /\ ~PairS(k).reqs[r].ended
            /\ IF PairS(k).reqs[r].listening = "buffer"
               THEN PairSet(k, onBufferedEnd(PairNote(PairS(k), r, "ended", TRUE), r))
               ELSE PairSet(k, returnSuccessOrError(PairNote(PairS(k), r, "ended", TRUE), r, NoErr))
            /\ UNCHANGED <<that, options, cb, cancelled, late, view, fed, qvars, cvars>>

PairNext ==
    \/ PairRequest
    \/ PairAbort
    \/ PairTransportError
    \/ PairTransportResponse
    \/ PairResponseEnd

SpecPair == PairInit /\ [][PairNext]_<<vars, xvars>>

\* ------------------------------------------- the constructor and the URL
\* A URL is a sequence of tokens: '{' and '}', words (matched by \w+) and
\* other text.  Values are kept by kind: undefined, the number 0 or 1, a
\* string, a function.
Words == {"a", "b", "h", "g", "d", "p", "0", "1", "v", "r", "function", "return"}

TPlain   == <<"h", "/", "d">>
TSlash   == <<"h", "/", "d", "/">>
TOther   == <<"g", "/", "d">>
TName    == <<"h", "/", "{", "a", "}">>
TTwice   == <<"{", "a", "}", "/", "{", "a", "}">>
TUnbound == <<"h", "/", "{", "b", "}">>
TExpr    == <<"h", "/", "{", "{", "a", "}", "}">>
TOpen    == <<"h", "/", "{", "a">>
TSlashes == <<"h", "/", "d", "/", "/">>

Templates     == {TPlain, TSlash, TSlashes, TOther, TName, TTwice, TUnbound, TExpr, TOpen}
ListTemplates == {TPlain, TOther}

UrlValues ==
    {[kind |-> "undefined", list |-> <<>>]} \cup
    {[kind |-> "string", list |-> <<t>>] : t \in Templates} \cup
    {[kind |-> "array", list |-> l] : l \in UNION {[1..n -> ListTemplates] : n \in 1..MaxUrls}}

Bindings == {"undefined", "0", "v", "function"}

Configs == [url : UrlValues, a : Bindings, request : {"undefined", "1"},
            illegalProperty : {"undefined", "1"}]

\* typeof this[key] before the config is copied: the methods of the prototype
Prototype(key) == IF key \in {"request"} THEN "function" ELSE "undefined"

\* url.replace(/\/$/, '')
stripSlash(url) ==
    IF url # <<>> /\ url[Len(url)] = "/" THEN SubSeq(url, 1, Len(url) - 1) ELSE url

\* a constructor that copies only the keys of its documentation
BeanBag_Supported(cfg) ==
    IF cfg.url.kind = "undefined" THEN [state |-> "threw", props |-> NoConfig]
    ELSE [state |-> "constructed",
          props |-> [url |-> [cfg.url EXCEPT !.list = [i \in DOMAIN @ |-> stripSlash(@[i])]],
                     a |-> "undefined", request |-> "function",
                     illegalProperty |-> "undefined"]]

\* function BeanBag(config): the instance, or the throw of 'config.url is required'
BeanBag(cfg) ==
    LET copied(key) == IF Prototype(key) = "undefined" THEN cfg[key] ELSE Prototype(key)
    IN  IF cfg.url.kind = "undefined" THEN [state |-> "threw", props |-> NoConfig]
        ELSE [state |-> "constructed",
              props |-> [url |-> [cfg.url EXCEPT !.list = [i \in DOMAIN @ |-> stripSlash(@[i])]],
                         a |-> copied("a"), request |-> copied("request"),
                         illegalProperty |-> copied("illegalProperty")]]

\* String(value), also what String.prototype.replace makes of a replacement
AsString(value) ==
    CASE value = "function"  -> <<"function", "(", ")", "{", "return", "r", "}">>
      [] value = "undefined" -> <<"undefined">>
      [] OTHER               -> <<value>>

\* requestOptions[name] and this[name] for a placeholder name
Lookup(scope, name) == IF name \in {"a"} THEN scope.a ELSE "undefined"

\* getPlaceholderValue(placeholderName, requestOptions), already as text
getPlaceholderValue(props, name, ro) ==
    IF Lookup(ro, name) # "undefined" THEN AsString(Lookup(ro, name))
    ELSE IF Lookup(props, name) = "undefined" THEN <<"{", name, "}">>
    ELSE IF Lookup(props, name) = "function" THEN <<"r">>
    ELSE AsString(Lookup(props, name))

\* where the longest run of (?:[^\{\}]+|\{\w+\})* starting at j ends
RECURSIVE contentEnd(_, _)
contentEnd(url, j) ==
    IF j > Len(url) THEN j
    ELSE IF url[j] \notin {"{", "}"} THEN contentEnd(url, j + 1)
    ELSE IF /\ url[j] = "{" /\ j + 2 <= Len(url)
            /\ url[j + 1] \in Words /\ url[j + 2] = "}" THEN contentEnd(url, j + 3)
    ELSE j

\* the length of the match of /\{((?:[^\{\}]+|\{\w+\})*)\}/ at the start of
\* url, 0 when there is none
matchLen(url) ==
    IF url = <<>> \/ url[1] # "{" THEN 0
    ELSE LET e == contentEnd(url, 2)
         IN  IF e <= Len(url) /\ url[e] = "}" THEN e ELSE 0

\* the replacement of one match; of the expressions only '{name}' alone is
\* evaluated, as the value of the name
replacement(props, content, ro) ==
    IF Len(content) = 1 /\ content[1] \in Words
    THEN getPlaceholderValue(props, content[1], ro)
    ELSE IF Len(content) = 3 /\ content[1] = "{" /\ content[3] = "}"
    THEN getPlaceholderValue(props, content[2], ro)
    ELSE <<"NaN">>

\* expandUrl(url, requestOptions)
RECURSIVE expandUrl(_, _, _)
expandUrl(props, url, ro) ==
    IF url = <<>> THEN <<>>
    ELSE LET m == matchLen(url)
         IN  IF m = 0 THEN <<url[1]>> \o expandUrl(props, Tail(url), ro)
             ELSE replacement(props, SubSeq(url, 2, m - 1), ro)
                  \o expandUrl(props, SubSeq(url, m + 1, Len(url)), ro)

Paths       == {<<>>, <<"p">>, <<"{", "a", "}">>}
CallOptions == [a : Bindings, path : Paths]

\* request(): the url it assembles from that.url, the options and the
\* path, or the TypeError of calling replace on a list
requestUrl(props, ro) ==
    IF props.url.kind = "array"
    THEN [threw |-> TRUE, url |-> <<>>, ro |-> ro]
    ELSE LET url == expandUrl(props, props.url.list[1], ro)
         IN  [threw |-> FALSE,
              url |-> IF ro.path # <<>> THEN url \o <<"/">> \o ro.path ELSE url,
              ro |-> ro]

\* the expressions of url for which expandUrl sets a '__placeholder_fn_'
\* method on the instance: the matches that are not a single word
RECURSIVE placeholderFns(_)
placeholderFns(url) ==
    IF url = <<>> THEN {}
    ELSE LET m == matchLen(url)
         IN  IF m = 0 THEN placeholderFns(Tail(url))
             ELSE (IF m = 3 /\ url[2] \in Words THEN {} ELSE {SubSeq(url, 2, m - 1)})
                  \cup placeholderFns(SubSeq(url, m + 1, Len(url)))

\* getAgent(): this._agent is made by the first call that gets there;
\* the protocol is parsed from this.url as it is, and a url that begins
\* with a placeholder has none, which throws before the agent is made
getAgent(props, agent) ==
    IF agent THEN agent ELSE props.url.list[1][1] # "{"

\* what one call of request() sets on the instance; on a list of urls
\* expandUrl has thrown before anything is set
requestAdds(props, a) ==
    IF props.url.kind = "array" THEN a
    ELSE [agent |-> getAgent(props, a.agent),
          placeholderFns |-> a.placeholderFns \cup placeholderFns(props.url.list[1])]

ClientInit ==
    /\ that = [numRetries |-> 0, preprocessRequestOptions |-> FALSE]
    /\ options = [streamRows |-> FALSE, numRetries |-> Undefined, body |-> "undefined"]
    /\ cb = TRUE
    /\ pc = "idle"
    /\ done = FALSE
    /\ numRetriesLeft = 0
    /\ currentRequest = Null
    /\ body = "undefined"
    /\ reqs = <<>>
    /\ log = <<>>
    /\ aborts = 0
    /\ cancelled = FALSE
    /\ late = FALSE
    /\ ViewIdle
    /\ QIdle
    /\ PairIdle
    /\ config \in Configs
    /\ instance = NoInstance
    /\ calls = <<>>
    /\ added = NoAdded

\* new BeanBag(config)
Construct ==
    /\ instance.state = "none"
    /\ instance' = BeanBag(config)
    /\ UNCHANGED <<config, calls, added, vars, view, fed, qvars, pvars>>

\* a call of request() on the instance, up to the url it targets
RequestCall ==
    \E ro \in CallOptions :
        /\ instance.state = "constructed"
        /\ Len(calls) < MaxCalls
        /\ calls' = Append(calls, requestUrl(instance.props, ro))
        /\ added' = requestAdds(instance.props, added)
        /\ UNCHANGED <<config, instance, vars, view, fed, qvars, pvars>>

ClientNext ==
    \/ Construct
    \/ RequestCall

SpecClient == ClientInit /\ [][ClientNext]_<<vars, xvars>>

\* ============================================================== properties
Count(ch, ev) == Cardinality({i \in 1..Len(log) : log[i].ch = ch /\ log[i].ev = ev})

NumSuccessful == Count("client", "successfulRequest")
NumFailed     == Count("client", "failedRequest")
NumLifecycle  == NumSuccessful + NumFailed
NumCallbacks  == Count("cb", "success") + Count("cb", "error")
NumOutcomes   == Count("cb", "success") + Count("cb", "error")
                 + Count("handle", "end") + Count("handle", "error")

IsHandle(i, ev)  == log[i].ch = "handle" /\ log[i].ev = ev
IsTerminal(i)    == IsHandle(i, "end") \/ IsHandle(i, "error")

\* the retry budget the call asks for
Budget == IF options.numRetries # Undefined THEN options.numRetries ELSE that.numRetries

\* C1, as stated: the client emits exactly one of 'successfulRequest' and
\* 'failedRequest' per invocation, whatever abort() calls are made: never
\* two, and not zero once the invocation has finished.
C1_Original == NumLifecycle <= 1 /\ (done => NumLifecycle = 1)

\* C1, amended: at most one lifecycle event is emitted per invocation, and a
\* finished invocation has emitted exactly one, unless abort() finished it,
\* in which case it has emitted none.
C1_Lifecycle ==
    /\ NumLifecycle <= 1
    /\ done => (IF cancelled THEN NumLifecycle = 0 ELSE NumLifecycle = 1)

\* an invocation that failed, then got a further transport event and abort()
C1_Witness == done /\ ~cancelled /\ NumFailed = 1 /\ late /\ aborts > 0

\* C2: with a callback, the callback is invoked at most once, and exactly
\* once when the invocation has finished without being cancelled by abort();
\* events delivered after the callback do not invoke it again.
C2_CallbackOnce ==
    cb => /\ NumCallbacks <= 1
          /\ (done /\ ~cancelled) => NumCallbacks = 1

\* the callback was called and the transport delivered a later event
C2_Witness == cb /\ NumCallbacks = 1 /\ late /\ \E r \in 1..Len(reqs) : reqs[r].bodyErrored

\* C3, as stated: exactly one of callback success, callback error, 'end' on
\* the handle and 'error' on the handle fires; no run produces two of them.
C3_Original == NumOutcomes <= 1 /\ ((done /\ ~cancelled) => NumOutcomes = 1)

\* C3, amended: an invocation not cancelled by abort() ends in exactly one
\* of success and failure. Failure is the callback called with the error
\* when a callback is given and 'error' on the handle otherwise; success is
\* 'end' on the handle, followed by the callback called with success when a
\* callback is given. No outcome fires twice.
C3_Outcome ==
    LET ok   == Count("cb", "success")
        ke   == Count("cb", "error")
        end  == Count("handle", "end")
        he   == Count("handle", "error")
    IN  /\ end <= 1 /\ ke + he <= 1
        /\ (ke + he = 1) => end = 0
        /\ IF cb THEN he = 0 /\ ok = end ELSE ke = 0 /\ ok = 0
        /\ (done /\ ~cancelled) => (end + ke + he = 1)

\* a success with a callback: 'end' and the callback both fired
C3_Witness == cb /\ Count("handle", "end") = 1 /\ Count("cb", "success") = 1

NumErrored == Cardinality({r \in 1..Len(reqs) : reqs[r].errored})
NoResponseHandled == \A r \in 1..Len(reqs) : reqs[r].statusCode = 0

\* the response of r was a 200 that came in whole and well-formed
CleanOk(r) ==
    /\ reqs[r].statusCode = 200
    /\ ~reqs[r].errored /\ ~reqs[r].bodyErrored
    /\ cb => reqs[r].ended
    /\ reqs[r].nChunks = 0 \/ ~isContentTypeJson(reqs[r].contentType) \/ JsonBodyOk(reqs[r].chunks)

\* C4: without streamRows and without a stream body, with retry budget R the
\* transport is dispatched at most R+1 times; a failure without any response
\* comes only after R+1 transport errors; a 200 response to any of the
\* dispatches makes the invocation succeed.
C4_Retries ==
    (~options.streamRows /\ options.body # "stream") =>
        /\ Len(reqs) <= Budget + 1
        /\ (NumFailed = 1 /\ Len(reqs) > 0 /\ NoResponseHandled)
              => (NumErrored = Budget + 1 /\ Len(reqs) = Budget + 1)
        /\ \A r \in 1..Len(reqs) : (done /\ ~cancelled /\ CleanOk(r)) => NumSuccessful = 1

\* numRetries = 2: two transport errors, then a 200 and success
C4_Witness ==
    /\ ~options.streamRows /\ options.body # "stream" /\ Budget = 2
    /\ Len(reqs) = 3 /\ NumErrored = 2 /\ reqs[3].statusCode = 200 /\ NumSuccessful = 1

\* C5: with a stream body the transport is dispatched at most once, whatever
\* numRetries is, and the first transport error is surfaced.
C5_StreamBody ==
    options.body = "stream" =>
        /\ Len(reqs) <= 1
        /\ \A r \in 1..Len(reqs) : (reqs[r].errored /\ reqs[r].statusCode = 0) => NumFailed = 1

\* a stream body with a positive budget, one dispatch, its error surfaced
C5_Witness ==
    /\ options.body = "stream" /\ ~options.streamRows /\ Budget > 0
    /\ Len(reqs) = 1 /\ reqs[1].errored /\ NumFailed = 1

\* C6, as stated: after abort() nothing more is emitted on the handle or on
\* the client and the callback is not invoked, in every state abort() can be
\* called in.
C6_Original == [][aborts > 0 => log' = log]_vars

\* C7, as stated: after abort() the in-flight transport request is aborted
\* and no new transport request is dispatched for the invocation.
C7_Original ==
    [][aborts > 0 => (currentRequest = Null /\ Len(reqs') = Len(reqs))]_vars

\* C8: abort() is idempotent: abort() applied to the state abort() leaves is
\* that same state, and no transport request is aborted twice.
C8_Idempotent ==
    /\ abort(abort(S)) = abort(S)
    /\ \A r \in 1..Len(reqs) : reqs[r].aborted <= 1

\* abort() called twice, the first call having aborted a transport request
C8_Witness == aborts >= 2 /\ \E r \in 1..Len(reqs) : reqs[r].aborted = 1

\* C9, as stated: the handle's events come in the order request, response,
\* (metadata?, row*)?, (end|error), and the callback comes after the terminal
\* event.
C9_Original ==
    \A i, j \in 1..Len(log) : i < j =>
        /\ IsTerminal(i) => log[j].ch # "handle"
        /\ IsHandle(i, "response") => ~IsHandle(j, "request")
        /\ IsHandle(i, "row") => ~IsHandle(j, "metadata")
        /\ (IsHandle(j, "metadata") \/ IsHandle(j, "row"))
              => \E k \in 1..(j - 1) : IsHandle(k, "response")
        /\ log[i].ch = "cb" => log[j].ch # "handle"

\* C10, as stated: with streamRows, a line that cannot be parsed makes the
\* handle emit 'error' once, and nothing is emitted on the handle after it.
C10_Original ==
    /\ Count("handle", "error") <= 1
    /\ \A i, j \in 1..Len(log) :
          (i < j /\ IsHandle(i, "error") /\ log[i].arg.text # <<>>) => log[j].ch # "handle"

HandleLog == SelectSeq(log, LAMBDA e : e.ch = "handle")

RowLines == {LRow, LRowB}

\* the value of a row line
ParsedRow(line) ==
    IF line = LRow THEN <<"{", "\"", "a", "\"", ":", "1", "}">>
    ELSE <<"{", "\"", "b", "\"", ":", "1", "}">>

\* an opening line with metadata, then row and framing lines, then ']}'
WellFormedView ==
    /\ Len(view) >= 2
    /\ view[1] = LOpenMeta
    /\ view[Len(view)] = LClose
    /\ \A i \in 2..(Len(view) - 1) : view[i] \in RowLines \cup {LSep, LEmpty}

\* the events the first n lines of a well-formed view are to produce
RECURSIVE ExpectedEvents(_)
ExpectedEvents(n) ==
    IF n = 0 THEN <<>>
    ELSE ExpectedEvents(n - 1) \o
         (IF n = 1 THEN <<Ev("handle", "metadata", Err(0, "", <<"{", "\"", "t", "\"", ":", "2", "}">>))>>
          ELSE IF view[n] \in RowLines THEN <<Ev("handle", "row", Err(0, "", ParsedRow(view[n])))>>
          ELSE <<>>)

\* C11: for a view response made of an opening line with metadata, N row
\* lines and the closing ']}', the handle emits one 'metadata', then one
\* 'row' per row line in the order of the lines, then 'end'; framing lines
\* produce no event.
C11_ViewEvents ==
    (WellFormedView /\ Len(reqs) = 1 /\ reqs[1].statusCode \in {200, 304}) =>
        HandleLog = <<Ev("handle", "request", NoErr), Ev("handle", "response", NoErr)>>
                    \o ExpectedEvents(fed)
                    \o (IF reqs[1].ended THEN <<Ev("handle", "end", NoErr)>> ELSE <<>>)

\* two different rows, a framing line in between, all delivered and ended
C11_Witness ==
    /\ WellFormedView /\ Len(reqs) = 1 /\ reqs[1].statusCode = 200
    /\ fed = Len(view) /\ reqs[1].ended
    /\ Count("handle", "row") = 2 /\ Count("handle", "metadata") = 1
    /\ view[2] # view[3]

\* ---------------------------------------------- queryDesignDocument claims
Indices(seq, Test(_)) == {i \in DOMAIN seq : Test(seq[i])}

ViewSubs    == Indices(subs, LAMBDA sub : sub.kind = "view")
PutSubs     == Indices(subs, LAMBDA sub : sub.kind = "put")
AllDocsSubs == Indices(subs, LAMBDA sub : sub.kind = "alldocs")
DeleteSubs  == Indices(subs, LAMBDA sub : sub.kind = "delete")
ViewGets    == Indices(out, LAMBDA o : o.path = Path("view", NoRow))
CbCalls     == Indices(trace, LAMBDA t : t.what = "cb")
Thrown      == Indices(trace, LAMBDA t : t.what = "throw")

Finished(i) == subs[i].phase = "done"
Failed(i)   == Finished(i) /\ subs[i].err # NoErr

\* C12 as stated: at most one install and at most two view GETs go out.
C12_Original ==
    installs <= 1 /\ Cardinality(ViewGets) <= 2

\* C12: at most one install and at most two request() invocations for the
\* view, each dispatched at most 1 + numRetries times (once with streamRows);
\* a second one exists only after a NotFound and one install, and its error
\* goes to the caller's callback as it is, without a second install.
C12_Install ==
    /\ installs <= 1 /\ Cardinality(PutSubs) = installs
    /\ Cardinality(ViewSubs) <= 2
    /\ Cardinality(ViewGets) <=
           Cardinality(ViewSubs) * (IF qoptions.streamRows THEN 1 ELSE 1 + that.numRetries)
    /\ \A i \in ViewSubs :
           i > 1 => /\ installs = 1
                    /\ subs[1].kind = "view" /\ Failed(1) /\ NotFound(subs[1].err)
                    /\ Finished(i) =>
                           /\ Cardinality(CbCalls) = 1
                           /\ \A c \in CbCalls : trace[c].err = subs[i].err

\* the retried view GET has failed with NotFound again
C12_Witness ==
    /\ installs = 1 /\ Cardinality(ViewSubs) = 2
    /\ \E i \in ViewSubs : i > 1 /\ Failed(i) /\ NotFound(subs[i].err)
    /\ \E c \in CbCalls : NotFound(trace[c].err)

\* C13: a 409 Conflict answer to the PUT of the design document counts as
\* success, so the view GET is retried and the caller sees no error of the
\* PUT; any other error of the PUT goes to the caller's callback and the
\* view GET is not retried.
C13_Conflict ==
    \A p \in PutSubs :
        Failed(p) =>
            IF Conflict(subs[p].err)
            THEN /\ Cardinality(ViewSubs) = 2
                 /\ \E i \in ViewSubs : i > p /\ subs[i].callback = "cb"
                 /\ \A c \in CbCalls : \E i \in ViewSubs : i > p /\ Finished(i)
            ELSE /\ Cardinality(ViewSubs) = 1
                 /\ AllDocsSubs = {}
                 /\ Cardinality(CbCalls) = 1
                 /\ \A c \in CbCalls : trace[c].err = subs[p].err

\* the PUT was answered 409 and the retried view GET has succeeded
C13_Witness ==
    /\ \E p \in PutSubs : Failed(p) /\ Conflict(subs[p].err)
    /\ \E i \in ViewSubs : i > 1 /\ Finished(i) /\ subs[i].err = NoErr
    /\ \E c \in CbCalls : trace[c].err = NoErr

Kinds == [i \in DOMAIN subs |-> subs[i].kind]

\* the kinds of the request() invocations of a call that installs
InstallOrder(n) ==
    [i \in 1..n |-> IF i = 1 THEN "view" ELSE IF i = 2 THEN "put"
                    ELSE IF i = 3 THEN "view" ELSE IF i = 4 THEN "alldocs"
                    ELSE "delete"]

Dispatched(i)    == \E k \in DOMAIN out : out[k].sub = i
FirstDispatch(i) == CHOOSE k \in DOMAIN out :
                        out[k].sub = i /\ \A j \in DOMAIN out : out[j].sub = i => k <= j

DeletesOut == Indices(out, LAMBDA o : o.method = "DELETE")

\* the rows the DELETE requests were made for, in the order they were made
DeleteRows ==
    LET d == SelectSeq(subs, LAMBDA sub : sub.kind = "delete")
    IN  [i \in DOMAIN d |-> d[i].row]

\* the rows of a listing that are other design documents
OldDesignRows(listing) ==
    SelectSeq(listing.rows, LAMBDA row : row = [id |-> IdOld, rev |-> "2-b"])

Listed(a) == Finished(a) /\ subs[a].err = NoErr /\ subs[a].listing.defined

\* C15 as stated: once the cleanup is over, exactly one DELETE has gone out
\* for every row of another design document.
C15_Original ==
    \A a \in AllDocsSubs :
        (Listed(a) /\ \A d \in DeleteSubs : Finished(d)) =>
            Cardinality(DeletesOut) = Len(OldDesignRows(subs[a].listing))

\* C15: the cleanup calls request() with method DELETE once, in listing
\* order, for every row whose id starts with '_design/' and is not
\* '_design/<F>'; every DELETE that goes out carries that row's id and
\* revision, each at most 1 + numRetries times, and none goes out for
\* '_design/<F>' or for a row that is not a design document.
C15_Cleanup ==
    /\ (\A a \in AllDocsSubs : ~Listed(a)) => DeleteRows = <<>>
    /\ \A a \in AllDocsSubs : Listed(a) => DeleteRows = OldDesignRows(subs[a].listing)
    /\ \A k \in DeletesOut :
           /\ out[k].sub \in DeleteSubs
           /\ out[k].path = IdOld /\ out[k].rev = "2-b"
    /\ \A d \in DeleteSubs :
           Cardinality({k \in DeletesOut : out[k].sub = d}) <= 1 + that.numRetries

\* the listing held the current design document and another one, and the
\* DELETE of the other one went out
C15_Witness ==
    /\ \E a \in AllDocsSubs :
           /\ Listed(a)
           /\ subs[a].listing.rows = <<[id |-> IdCurrent, rev |-> "1-a"],
                                       [id |-> IdOld, rev |-> "2-b"]>>
    /\ Cardinality(DeleteSubs) = 1 /\ Cardinality(DeletesOut) = 1

\* C16 as stated: whatever happens to the cleanup (the _all_docs request
\* failing, its listing having no body, a DELETE failing), no exception is
\* thrown in it.
C16_Original ==
    \A t \in Thrown : trace[t].on # "cleanup"

\* C17 as stated: an error of the first view request other than NotFound
\* reaches the caller's callback as that error, whatever trustViewETags is.
C17_Original ==
    (subs # <<>> /\ Failed(1) /\ ~NotFound(subs[1].err)) =>
        /\ \E c \in CbCalls : trace[c].err = subs[1].err
        /\ \A t \in Thrown : trace[t].on # "first"

\* C18 as stated: with trustViewETags false, a response handed to the
\* caller on success has no etag in cacheInfo.headers, on the first attempt
\* and on the attempt after an install.
C18_Original ==
    trustViewETags = "false" =>
        \A c \in CbCalls : trace[c].err = NoErr => trace[c].response = "noetag"

\* C19 as stated: a client constructed without trustViewETags sends the
\* caller's conditional etag with the view GET and hands the server's etag
\* to the caller.
C19_Original ==
    trustViewETags = "undefined" =>
        /\ qoptions.conditionalHeaders = "etag" => \A k \in ViewGets : out[k].etag
        /\ \A i \in ViewSubs, c \in CbCalls :
               (Finished(i) /\ subs[i].err = NoErr /\ subs[i].response = "etag")
                   => trace[c].response = "etag"

\* C20 as stated: the 'metadata', 'row' and 'end' events of the view
\* response are emitted on the handle queryDesignDocument returned.
C20_Original ==
    \A t \in DOMAIN trace :
        trace[t].what = "event" => trace[t].on = ReturnedEmitter

\* ------------------------------------------ constructor and URL claims
Constructed == instance.state = "constructed"

\* C21 as stated: on a client with a list of n base URLs the k-th call of
\* request() targets base URL number (k mod n) of the list.
C21_Original ==
    (Constructed /\ instance.props.url.kind = "array") =>
        \A k \in DOMAIN calls :
            LET list == instance.props.url.list
                base == list[((k - 1) % Len(list)) + 1]
            IN  /\ ~calls[k].threw
                /\ SubSeq(calls[k].url, 1, Len(base)) = base

\* ------------------------------------------------- responses and retries
Surfaced == {i \in DOMAIN log : log[i].ev \in {"failedRequest", "error"}}

\* C22 as stated: once a response with a status of 400 or more was received
\* in non-streaming mode, with no 'error' of the request or of the response
\* stream, an error surfaced to the caller or in 'failedRequest' is the
\* typed HTTP error of that status.
C22_Original ==
    \A r \in DOMAIN reqs :
        (/\ reqs[r].statusCode >= 400 /\ ~options.streamRows
         /\ ~reqs[r].bodyErrored /\ ~reqs[r].errored) =>
            \A i \in Surfaced : log[i].arg = httpErrors(reqs[r].statusCode)

\* a buffered response below 400, announced as JSON, whose body has arrived
\* and is not valid JSON
BadJsonBody(r) ==
    /\ reqs[r].listening = "buffer" /\ reqs[r].ended
    /\ reqs[r].statusCode < 400
    /\ reqs[r].contentType = "application/json"
    /\ reqs[r].nChunks > 0 /\ reqs[r].chunks # "{}"

\* C23: in non-streaming mode a response below 400 with a JSON content
\* type and a body that is not valid JSON fails the request with
\* BadGateway: the callback gets that error, 'failedRequest' is emitted with
\* it, and neither 'successfulRequest' nor 'end' is emitted.
C23_BadGateway ==
    \A r \in DOMAIN reqs :
        BadJsonBody(r) =>
            /\ Count("cb", "error") = 1 /\ Count("cb", "success") = 0
            /\ NumFailed = 1 /\ NumSuccessful = 0
            /\ Count("handle", "end") = 0
            /\ \A i \in Surfaced : log[i].arg = BadGateway

\* such a response has ended and the callback has been called
C23_Witness ==
    \E r \in DOMAIN reqs :
        /\ BadJsonBody(r) /\ reqs[r].statusCode = 200
        /\ \E i \in DOMAIN log : log[i] = Ev("cb", "error", BadGateway)

\* the retry budget of the call
EffectiveBudget == IF options.streamRows THEN 0 ELSE Budget

Responded == \E r \in DOMAIN reqs : reqs[r].responded

\* C30: once a response of any status was received the retry counter is 0
\* and no transport request is dispatched again; an 'error' of the request
\* after its 'response' fails the invocation.
C30_NoRetry ==
    [][Responded =>
           /\ numRetriesLeft = 0
           /\ Len(reqs') = Len(reqs)
           /\ \A r \in DOMAIN reqs :
                  (reqs[r].responded /\ ~reqs[r].errored /\ reqs'[r].errored /\ ~done)
                      => (done' /\ NumFailed' = 1 /\ NumSuccessful' = 0)]_vars

\* a call with retries left got a response and then an 'error' on the
\* same request
C30_Witness ==
    /\ Budget > 0 /\ ~options.streamRows /\ options.body # "stream"
    /\ Len(reqs) = 1 /\ reqs[1].responded /\ reqs[1].errored
    /\ NumFailed = 1

\* ------------------------------------------------------------- init()
InitSubs == Indices(subs, LAMBDA sub : sub.kind = "init")
PutsOut  == Indices(out, LAMBDA o : o.method = "PUT")

\* C24 as stated: once init() has finished, one PUT has gone out and the
\* callback was called once.
C24_Original ==
    (\E i \in InitSubs : Finished(i)) =>
        Cardinality(PutsOut) = 1 /\ Cardinality(CbCalls) = 1

\* C24: init() calls request() once, with method PUT and no path; the PUT
\* goes out at most 1 + numRetries times; the callback is called only when
\* that request has finished, then exactly once: without error after a
\* success or a PreconditionFailed, with the error after any other failure.
C24_Init ==
    qpc = "init" =>
        /\ Len(subs) = 1 /\ InitSubs = {1}
        /\ \A k \in DOMAIN out : out[k].method = "PUT" /\ out[k].path = <<>>
        /\ Len(out) <= 1 + that.numRetries
        /\ IF Finished(1)
           THEN /\ Cardinality(CbCalls) = 1 /\ Len(trace) = 1
                /\ trace[1].err = IF PreconditionFailed(subs[1].err) THEN NoErr
                                  ELSE subs[1].err
           ELSE trace = <<>>

\* the PUT was answered 412 and the callback was called without error
C24_Witness ==
    /\ qpc = "init" /\ Finished(1) /\ PreconditionFailed(subs[1].err)
    /\ trace = <<Tr("cb", "", "", NoErr, "undefined")>>

\* ------------------------------------------------ placeholders, config
\* what a simple placeholder is to resolve to: the per-call value when it
\* is not undefined, else the client's, a function being called for its
\* result, and the placeholder itself when neither scope has the name
Resolved(props, name, ro) ==
    LET text(value) == IF value = "function" THEN <<"r">> ELSE AsString(value)
    IN  IF Lookup(ro, name) # "undefined" THEN text(Lookup(ro, name))
        ELSE IF Lookup(props, name) # "undefined" THEN text(Lookup(props, name))
        ELSE <<"{", name, "}">>

\* C25 as stated: '{a}' in the base URL resolves to the per-call option a
\* when it is not undefined, else to the client's a, a function of either
\* scope being called for its result, and stays as it is when a is
\* undefined in both.
C25_Original ==
    (Constructed /\ instance.props.url = [kind |-> "string", list |-> <<TName>>]) =>
        \A k \in DOMAIN calls :
            calls[k].ro.path = <<>> =>
                calls[k].url = <<"h", "/">> \o Resolved(instance.props, "a", calls[k].ro)

\* a '{' and the next '}' of a url, with no brace in between
BraceSequence(url, i, j) ==
    /\ i < j /\ url[i] = "{" /\ url[j] = "}"
    /\ \A m \in (i + 1)..(j - 1) : url[m] \notin {"{", "}"}

\* C26 as stated: a '{...}' in the url that request() assembled is a
\* '{word}' whose word is undefined in the options and on the client.
C26_Original ==
    Constructed =>
        \A k \in DOMAIN calls :
            \A i, j \in DOMAIN calls[k].url :
                BraceSequence(calls[k].url, i, j) =>
                    /\ j = i + 2 /\ calls[k].url[i + 1] \in Words
                    /\ Lookup(calls[k].ro, calls[k].url[i + 1]) = "undefined"
                    /\ Lookup(instance.props, calls[k].url[i + 1]) = "undefined"

\* C27 as stated: with the key 'request' in the config the constructor
\* throws and produces no instance.
C27_Original ==
    (config.request # "undefined" /\ instance.state # "none") => instance.state = "threw"

C31_Original ==
    \A r \in DOMAIN reqs :
        (options.streamRows /\ reqs[r].statusCode >= 400) =>
            \A i \in DOMAIN log :
                log[i].ch = "handle" => log[i].ev \in {"request", "error"}

\* -------------------------------------------------- the base URLs held
\* C32 as stated: after construction, for every accepted url configuration
\* (a string or a list of strings, each with any number of trailing
\* slashes), no base URL held by the client ends with '/'.
C32_Original ==
    instance.state = "constructed" =>
        \A i \in DOMAIN instance.props.url.list :
            LET url == instance.props.url.list[i]
            IN  url # <<>> => url[Len(url)] # "/"

\* ------------------------------------------- the client's state in use
\* C33 as stated: no sequence of calls changes the client's configuration
\* or bindings, and the calls change no state of the client other than its
\* base URLs.
C33_Original ==
    Constructed =>
        /\ instance.props.a = BeanBag(config).props.a
        /\ instance.props.illegalProperty = BeanBag(config).props.illegalProperty
        /\ instance.props.request = BeanBag(config).props.request
        /\ added = NoAdded

\* ------------------------------------- two queryDesignDocument calls at once
ViewSubsOf(q) == Indices(q.subs, LAMBDA sub : sub.kind = "view")
PutSubsOf(q)  == Indices(q.subs, LAMBDA sub : sub.kind = "put")
ViewGetsOf(q) == Indices(q.out, LAMBDA o : o.path = Path("view", NoRow))
PutsOutOf(q)  == Indices(q.out, LAMBDA o : o.method = "PUT")
CbCallsOf(q)  == Indices(q.trace, LAMBDA t : t.what = "cb")

\* the first view request of the call has ended with NotFound
FirstNotFound(q) ==
    /\ Len(q.subs) >= 1 /\ q.subs[1].kind = "view"
    /\ q.subs[1].phase = "done" /\ NotFound(q.subs[1].err)

\* the call makes one install and one retry, a 409 to its PUT does not fail
\* it, and its callback is called once, with the result of its own retry
OwnRetry(q) ==
    /\ q.installs = 1 /\ Cardinality(PutSubsOf(q)) = 1
    /\ Cardinality(ViewSubsOf(q)) <= 2
    /\ Cardinality(CbCallsOf(q)) <= 1
    /\ \A p \in PutSubsOf(q) :
           (q.subs[p].phase = "done" /\ (q.subs[p].err = NoErr \/ Conflict(q.subs[p].err))) =>
               /\ Cardinality(ViewSubsOf(q)) = 2
               /\ \A i \in ViewSubsOf(q) :
                      i > p =>
                          IF q.subs[i].phase = "done"
                          THEN /\ Cardinality(CbCallsOf(q)) = 1
                               /\ \A c \in CbCallsOf(q) :
                                      /\ q.trace[c].err = q.subs[i].err
                                      /\ q.trace[c].response = q.subs[i].response
                          ELSE CbCallsOf(q) = {}

\* C34 as stated: when two overlapping queryDesignDocument calls both get
\* NotFound for their first view GET, at most one PUT and at most one
\* retried view GET go out for each, a 409 to a PUT does not fail its
\* call, and each callback is called once with the result of the retried
\* view GET of its own call.
C34_Original ==
    \A k \in Invocations :
        FirstNotFound(Inv(k)) =>
            /\ Cardinality(PutsOutOf(Inv(k))) <= 1
            /\ Cardinality(ViewGetsOf(Inv(k))) <= 2
            /\ OwnRetry(Inv(k))

\* C34: when two overlapping queryDesignDocument calls both get NotFound
\* for their first view request, each calls request() once for the install
\* PUT and once more for the view, each of these going out at most
\* 1 + numRetries times; a 409 to a PUT does not fail its call, and each
\* callback is called once with the result of the retried view request of
\* its own call.
C34_Overlap ==
    \A k \in Invocations :
        FirstNotFound(Inv(k)) =>
            /\ Cardinality(PutsOutOf(Inv(k))) <= 1 + that.numRetries
            /\ Cardinality(ViewGetsOf(Inv(k))) <= 2 * (1 + that.numRetries)
            /\ OwnRetry(Inv(k))

\* both calls were answered NotFound; the PUT of one was answered 201 and
\* the PUT of the other 409; both retries have ended, with different
\* results, and each callback has got the result of its own
C34_Witness ==
    /\ FirstNotFound(Inv(1)) /\ FirstNotFound(Inv(2))
    /\ \E p \in PutSubsOf(Inv(1)) : Inv(1).subs[p].phase = "done" /\ Conflict(Inv(1).subs[p].err)
    /\ \E p \in PutSubsOf(Inv(2)) : Inv(2).subs[p].phase = "done" /\ Inv(2).subs[p].err = NoErr
    /\ \E c \in CbCallsOf(Inv(1)) : NotFound(Inv(1).trace[c].err)
    /\ \E c \in CbCallsOf(Inv(2)) : Inv(2).trace[c].err = NoErr /\ Inv(2).trace[c].response = "etag"

\* ------------------------------------------- two request() calls at once
\* the terminal notifications in the log of a call
TerminalsOf(s) ==
    {i \in DOMAIN s.log :
        \/ s.log[i].ch = "cb"
        \/ s.log[i].ch = "handle" /\ s.log[i].ev \in {"end", "error"}}

ErroredOf(s) == {r \in DOMAIN s.reqs : s.reqs[r].errored}

\* what a call shows when nothing but its own events has acted on it: its
\* transport requests were aborted by its own abort() only, without an
\* abort() it is done exactly when it has notified its caller, and before
\* a response it has used one retry per error of its own transport requests
OwnState(s) ==
    /\ \A r \in DOMAIN s.reqs : s.reqs[r].aborted <= s.aborts
    /\ s.aborts = 0 => (s.done <=> TerminalsOf(s) # {})
    /\ (s.pc = "running" /\ \A r \in DOMAIN s.reqs : ~s.reqs[r].responded) =>
           LET used == IF Cardinality(ErroredOf(s)) < that.numRetries
                       THEN Cardinality(ErroredOf(s)) ELSE that.numRetries
           IN  /\ s.numRetriesLeft = that.numRetries - used
               /\ Len(s.reqs) = 1 + used

\* C35: of two overlapping request() calls on one client every step (a
\* call, an abort, a transport error, a response, its end) changes done,
\* numRetriesLeft, currentRequest, the transport requests and the events
\* of one call only, so an abort, failure or completion of one call never
\* suppresses an event, uses a retry or aborts a transport request of the
\* other.
C35_Isolated ==
    [][/\ \A k \in Calls : PairS(k)' # PairS(k) => PairS(3 - k)' = PairS(3 - k)
       /\ \A k \in Calls : OwnState(PairS(k))']_<<vars, xvars>>

\* the first call was aborted with its transport request in flight; the
\* second has used its retry and has completed for its caller, none of
\* its transport requests aborted
C35_Witness ==
    /\ done /\ aborts = 1 /\ Len(reqs) = 1 /\ reqs[1].aborted = 1 /\ TerminalsOf(PairS(1)) = {}
    /\ second.aborts = 0 /\ Len(second.reqs) = 2 /\ second.reqs[1].errored
    /\ second.reqs[2].statusCode = 200 /\ second.reqs[2].ended
    /\ \E i \in DOMAIN second.log : second.log[i].ev \in {"end"}
    /\ \A r \in DOMAIN second.reqs : second.reqs[r].aborted = 0

\* ------------------------------------------- the preprocessRequestOptions hook
\* an invocation whose hook has called back, with no transport request made
HookFailed == pc = "running" /\ reqs = <<>>

\* C36: when the preprocessRequestOptions hook reports an error, no
\* transport request is made for the invocation, then or later, and no
\* 'request' is emitted; unless abort() was called before, 'failedRequest'
\* is emitted on the client and the error goes to the callback, or as
\* 'error' to the handle without one, once, and nothing else is emitted.
C36_HookError ==
    [][/\ HookError =>
              /\ reqs' = <<>>
              /\ IF done THEN log' = log
                 ELSE \E err \in HookErrors :
                          log' = <<Ev("client", "failedRequest", toHttpError(err)),
                                   Ev(IF cb THEN "cb" ELSE "handle", "error", toHttpError(err))>>
       /\ HookFailed => (reqs' = <<>> /\ log' = log)]_vars

\* the hook has reported an error and the callback has got it
C36_Witness ==
    /\ that.preprocessRequestOptions /\ HookFailed /\ ~cancelled
    /\ NumFailed = 1 /\ Count("cb", "error") = 1 /\ Len(log) = 2

\* ------------------------------------------------ when the cleanup starts
CleanupOut == Indices(out, LAMBDA o : o.path = Path("alldocs", NoRow) \/ o.method = "DELETE")

Installed(p) == Finished(p) /\ subs[p].err = NoErr

\* C37: the _all_docs GET of the cleanup is requested only by the callback
\* of an install PUT that succeeded, and a DELETE only after that listing;
\* while the PUT is pending, and when it was answered 409 Conflict or
\* failed otherwise, no _all_docs GET and no DELETE is requested or goes out.
C37_CleanupAfterSuccess ==
    /\ \A a \in AllDocsSubs : \E p \in PutSubs : p < a /\ Installed(p)
    /\ \A d \in DeleteSubs : \E a \in AllDocsSubs : a < d /\ Listed(a)
    /\ \A k \in CleanupOut : out[k].sub \in AllDocsSubs \cup DeleteSubs
    /\ (\A p \in PutSubs : ~Installed(p)) =>
           AllDocsSubs = {} /\ DeleteSubs = {} /\ CleanupOut = {}

\* the PUT was answered 409, the retried view request has ended and the
\* caller has its result: no cleanup was started
C37_Witness ==
    /\ \E p \in PutSubs : Failed(p) /\ Conflict(subs[p].err)
    /\ \E i \in ViewSubs : i > 1 /\ Finished(i)
    /\ Cardinality(CbCalls) = 1
    /\ AllDocsSubs = {} /\ CleanupOut = {}

\* ------------------------------------ queryDesignDocument, temporary view
TempSubs  == Indices(subs, LAMBDA sub : sub.kind = "temp")
PostsOut  == Indices(out, LAMBDA o : o.method = "POST" /\ o.path = <<"_temp_view">>)

\* C38 as stated: with temporary set and no listName, queryDesignDocument
\* makes no view GET and no install and sends one POST to _temp_view whose
\* body holds language 'javascript' with the map (and the reduce, if any)
\* of views[viewName]; with the view missing, or with temporary and
\* listName together, it throws before any request is dispatched.
C38_Original ==
    qpc = "called" =>
        IF HasView(that.designDocument) /\ qoptions.listName = "undefined"
        THEN /\ ViewSubs = {} /\ PutSubs = {} /\ installs = 0 /\ Thrown = {}
             /\ Cardinality(TempSubs) = 1
             /\ \A k \in PostsOut : out[k].sub \in TempSubs
             /\ \A i \in TempSubs :
                    subs[i].body = TempBody(ViewOf(that.designDocument))
        ELSE Cardinality(Thrown) = 1 /\ subs = <<>> /\ out = <<>>

\* ------------------------------------------------------------ termination
\* the caller was notified: the callback was called, or 'end' or 'error'
\* was emitted on the handle
Notified == NumOutcomes >= 1

\* C39 as stated: when every transport request eventually emits 'error' or
\* 'response' and every response body eventually ends or fails, every
\* invocation that is not aborted eventually notifies its caller.
C39_Original == [](pc # "idle" => <>(Notified \/ aborts > 0))

\* C39: when, besides, the preprocessRequestOptions hook of the client, if
\* it has one, eventually calls back, every invocation that is not aborted
\* eventually notifies its caller; every retry takes one from
\* numRetriesLeft, which ends the retries.
C39_Terminates ==
    [](pc = "hook" => <>(pc # "hook")) => [](pc # "idle" => <>(Notified \/ aborts > 0))

\* the retry was used, failed as well, and the caller was notified
C39_Witness ==
    /\ aborts = 0 /\ Len(reqs) = 2 /\ reqs[1].errored /\ reqs[2].errored
    /\ numRetriesLeft = 0 /\ NumFailed = 1 /\ Notified

\* --------------------------------------------- lifecycle event comes first
\* C40: 'end' on the handle comes right after 'successfulRequest' on the
\* client, the success callback right after that 'end'; the error callback
\* and 'error' on the handle come right after 'failedRequest' on the
\* client, which carries the same error.
C40_LifecycleFirst ==
    \A j \in DOMAIN log :
        /\ (log[j].ch = "handle" /\ log[j].ev = "end") =>
               j > 1 /\ log[j - 1] = Ev("client", "successfulRequest", NoErr)
        /\ (log[j].ch = "cb" /\ log[j].ev = "success") =>
               /\ j > 2 /\ log[j - 1] = Ev("handle", "end", NoErr)
               /\ log[j - 2] = Ev("client", "successfulRequest", NoErr)
        /\ (log[j].ch \in {"cb", "handle"} /\ log[j].ev = "error") =>
               j > 1 /\ log[j - 1] = Ev("client", "failedRequest", log[j].arg)

\* a success with a callback: 'successfulRequest', 'end', the callback
C40_Witness ==
    /\ cb /\ NumSuccessful = 1 /\ Count("handle", "end") = 1 /\ Count("cb", "success") = 1
    /\ log[Len(log)].ch = "cb"
====
